---------------------------- MODULE Spec2Model ----------------------------
(***************************************************************************)
(* A model of uncompyle6's Python 2 bytecode scanner, Scanner2.disassemble *)
(* (src/uncompyle6/scanners/scanner2.py): truncation, line map, prev map,  *)
(* statement boundaries, structure detection, jump-target collection and   *)
(* token emission.  Offsets are 0-based as in the source; a Python list L  *)
(* is the TLA+ sequence whose element i+1 is L[i].                         *)
(***************************************************************************)
EXTENDS Integers, Sequences, FiniteSets, TLC

(***************************************************************************)
(* The opcode table (Python 2.7 numbering), consumed read-only.            *)
(***************************************************************************)
POP_TOP == 1
ROT_TWO == 2
DUP_TOP == 4
GET_ITER == 68
PRINT_ITEM == 71
PRINT_NEWLINE == 72
RETURN_VALUE == 83
IMPORT_STAR == 84
POP_BLOCK == 87
END_FINALLY == 88
HAVE_ARGUMENT == 90
STORE_NAME == 90
FOR_ITER == 93
LIST_APPEND == 94
LOAD_CONST == 100
BUILD_TUPLE == 102
IMPORT_NAME == 108
IMPORT_FROM == 109
JF == 110
JUMP_IF_FALSE_OR_POP == 111
JUMP_IF_TRUE_OR_POP == 112
JA == 113
PJIF == 114
PJIT == 115
LOAD_GLOBAL == 116
SETUP_LOOP == 120
SETUP_EXCEPT == 121
SETUP_FINALLY == 122
RAISE_VARARGS == 130
CALL_FUNCTION == 131
BUILD_SLICE == 133
LOAD_CLOSURE == 135
EXTENDED_ARG == 145
L65536 == 65536
version == 27

hasArgumentExtended == {}
hasconst == {LOAD_CONST}
hasname == {STORE_NAME, 91, 95, 96, 97, 98, 101, 106, IMPORT_NAME, IMPORT_FROM, LOAD_GLOBAL}
hasjrel == {FOR_ITER, JF, SETUP_LOOP, SETUP_EXCEPT, SETUP_FINALLY, 143}
hasjabs == {JUMP_IF_FALSE_OR_POP, JUMP_IF_TRUE_OR_POP, JA, PJIF, PJIT, 119}
haslocal == {124, 125, 126}
hascompare == {107}
hasfree == {LOAD_CLOSURE, 136, 137}

stmt_opcodes ==
    {SETUP_LOOP, 80, SETUP_FINALLY, END_FINALLY, SETUP_EXCEPT, POP_BLOCK,
     125, 126, 137, 97, 98, STORE_NAME, 91, 95, 96, 60, 61, RETURN_VALUE,
     RAISE_VARARGS, POP_TOP, 70, PRINT_ITEM, PRINT_NEWLINE, 73, 74, 119, JA,
     85, 143, 40, 41, 42, 43, 50, 51, 52, 53}
designator_ops == {125, STORE_NAME, 97, 137, 95, 40, 41, 42, 43, 60}
varargs_ops ==
    {103, BUILD_TUPLE, BUILD_SLICE, 92, 132, CALL_FUNCTION, 134, 140, 141,
     142, 99, RAISE_VARARGS, 104, 105}
setup_ops == {SETUP_EXCEPT, SETUP_LOOP, SETUP_FINALLY}
pop_jump_if_or_pop == {JUMP_IF_FALSE_OR_POP, JUMP_IF_TRUE_OR_POP}
pop_jump_if == {PJIF, PJIT}
jump_forward == {JA, JF}

opname(op) ==
    CASE op = POP_TOP -> "POP_TOP"
      [] op = ROT_TWO -> "ROT_TWO"
      [] op = DUP_TOP -> "DUP_TOP"
      [] op = GET_ITER -> "GET_ITER"
      [] op = PRINT_ITEM -> "PRINT_ITEM"
      [] op = PRINT_NEWLINE -> "PRINT_NEWLINE"
      [] op = RETURN_VALUE -> "RETURN_VALUE"
      [] op = IMPORT_STAR -> "IMPORT_STAR"
      [] op = POP_BLOCK -> "POP_BLOCK"
      [] op = END_FINALLY -> "END_FINALLY"
      [] op = STORE_NAME -> "STORE_NAME"
      [] op = FOR_ITER -> "FOR_ITER"
      [] op = LIST_APPEND -> "LIST_APPEND"
      [] op = LOAD_CONST -> "LOAD_CONST"
      [] op = 101 -> "LOAD_NAME"
      [] op = 124 -> "LOAD_FAST"
      [] op = BUILD_TUPLE -> "BUILD_TUPLE"
      [] op = 107 -> "COMPARE_OP"
      [] op = IMPORT_NAME -> "IMPORT_NAME"
      [] op = IMPORT_FROM -> "IMPORT_FROM"
      [] op = JF -> "JUMP_FORWARD"
      [] op = JUMP_IF_FALSE_OR_POP -> "JUMP_IF_FALSE_OR_POP"
      [] op = JUMP_IF_TRUE_OR_POP -> "JUMP_IF_TRUE_OR_POP"
      [] op = JA -> "JUMP_ABSOLUTE"
      [] op = PJIF -> "POP_JUMP_IF_FALSE"
      [] op = PJIT -> "POP_JUMP_IF_TRUE"
      [] op = LOAD_GLOBAL -> "LOAD_GLOBAL"
      [] op = SETUP_LOOP -> "SETUP_LOOP"
      [] op = SETUP_EXCEPT -> "SETUP_EXCEPT"
      [] op = SETUP_FINALLY -> "SETUP_FINALLY"
      [] op = RAISE_VARARGS -> "RAISE_VARARGS"
      [] op = CALL_FUNCTION -> "CALL_FUNCTION"
      [] op = BUILD_SLICE -> "BUILD_SLICE"
      [] op = LOAD_CLOSURE -> "LOAD_CLOSURE"
      [] op = EXTENDED_ARG -> "EXTENDED_ARG"
      [] OTHER -> "<op>"

(***************************************************************************)
(* Python values.  PyNone stands for None; ERR marks a read that raises    *)
(* IndexError (an index outside [-len, len)).                              *)
(***************************************************************************)
PyNone == -(2^20)
ERR == -(4 * 2^20)

InIdx(s, i) == -Len(s) <= i /\ i < Len(s)
\* L[i] with Python's negative-index wrap; ERR when it raises IndexError
Rd(s, i) == IF InIdx(s, i) THEN s[(IF i < 0 THEN i + Len(s) ELSE i) + 1] ELSE ERR

Abs(a) == IF a < 0 THEN -a ELSE a
Last(s) == s[Len(s)]
Put(f, k, v) == [x \in (DOMAIN f) \cup {k} |-> IF x = k THEN v ELSE f[x]]
EmptyMap == [x \in {} |-> 0]

\* AERR: AssertionError, TERR: TypeError, HANG: a loop that never ends.  An
\* error value stays an error value under the small offsets added to it.
AERR == -(6 * 2^20)
TERR == -(8 * 2^20)
HANG == -(10 * 2^20)
IsErr(x) == x < -(3 * 2^20)
ErrName(x) ==
    IF ~IsErr(x) THEN ""
    ELSE IF x > -(5 * 2^20) THEN "IndexError"
    ELSE IF x > -(7 * 2^20) THEN "AssertionError"
    ELSE IF x > -(9 * 2^20) THEN "TypeError"
    ELSE "hang"

VARIABLES
    pc,              \* position of disassemble
    err,             \* the exception that aborted disassemble, "" when none
    co,              \* the code object: co_code, linestarts, co_names, co_consts
    code,            \* self.code
    n,               \* the length returned by setup_code
    lines,           \* self.lines
    linestartoffsets,\* self.linestartoffsets
    prev,            \* self.prev
    load_asserts,    \* self.load_asserts
    stmts,           \* self.stmts
    next_stmt,       \* self.next_stmt
    structs,         \* self.structs
    loops,           \* self.loops
    fixed_jumps,     \* self.fixed_jumps
    ignore_if,       \* self.ignore_if
    not_continue,    \* self.not_continue
    return_end_ifs,  \* self.return_end_ifs
    targets,         \* the map find_jump_targets builds
    cursor,          \* offset the loop of find_jump_targets or disassemble is at
    tokens,          \* the token list of disassemble
    customize,       \* the customize map of disassemble
    replace,         \* the replace map of disassemble
    extended_arg,    \* extended_arg of the emission loop
    earlier,         \* outcomes of the earlier disassemble calls on this scanner
    chosen           \* parent of the last detect_structure call (lines 393-403)

emitvars == <<replace, extended_arg>>

vars == <<pc, err, co, code, n, lines, linestartoffsets, prev, load_asserts,
          stmts, next_stmt, structs, loops, fixed_jumps, ignore_if,
          not_continue, return_end_ifs, targets, cursor, tokens, customize,
          replace, extended_arg, earlier, chosen>>

(***************************************************************************)
(* The instruction cursor (uncompyle6/scanner.py, the base class).         *)
(***************************************************************************)
op_size(op) ==
    IF op < HAVE_ARGUMENT /\ op \notin hasArgumentExtended THEN 1 ELSE 3

op_hasArgument(op) == op_size(op) > 1

RECURSIVE OpRangeIn(_, _, _)
OpRangeIn(c, start, end) ==
    IF start < end /\ InIdx(c, start)
    THEN <<start>> \o OpRangeIn(c, start + op_size(Rd(c, start)), end)
    ELSE <<>>

op_range(start, end) == OpRangeIn(code, start, end)

\* code[pos+1] + code[pos+2] * 256, lo and hi being the two bytes read
argument_of(lo, hi) == IF IsErr(lo) \/ IsErr(hi) THEN ERR ELSE lo + hi * 256

get_argument(p) == argument_of(Rd(code, p + 1), Rd(code, p + 2))

\* the target of the jump op at p whose argument is a
target_of(p, op, a) ==
    IF IsErr(p) \/ IsErr(op) \/ IsErr(a) THEN ERR
    ELSE IF op \in hasjrel THEN a + p + 3 ELSE a

get_target_op(p, op) == target_of(p, op, get_argument(p))

get_target(p) == get_target_op(p, Rd(code, p))

SeqToSet(s) == {s[k] : k \in 1..Len(s)}

\* all_instr: [e |-> 0 or the error raised, v |-> the list of offsets];
\* cand are the offsets of [start, end) whose opcode is in instr
instr_filter(cand, target, include_beyond_target) ==
    IF target = PyNone THEN [e |-> 0, v |-> cand]
    ELSE IF \E k \in 1..Len(cand) : IsErr(get_target(cand[k]))
    THEN [e |-> ERR, v |-> <<>>]
    ELSE [e |-> 0,
          v |-> SelectSeq(cand, LAMBDA o :
                    \/ include_beyond_target /\ get_target(o) >= target
                    \/ get_target(o) = target)]

instr_in(start, end, instr) ==
    SelectSeq(op_range(start, end), LAMBDA o : Rd(code, o) \in instr)

all_instr(start, end, instr, target, include_beyond_target) ==
    IF ~(start >= 0 /\ end <= Len(code)) THEN [e |-> AERR, v |-> <<>>]
    ELSE instr_filter(instr_in(start, end, instr), target, include_beyond_target)

\* first_instr with no target: the first offset in [start, end) whose opcode
\* is in instr, or None
first_of(cand) == IF cand = <<>> THEN PyNone ELSE cand[1]

first_instr(start, end, instr) ==
    IF ~(start >= 0 /\ end <= Len(code)) THEN AERR
    ELSE first_of(instr_in(start, end, instr))

\* last_instr: walks [start, end) forward keeping the last match; with a
\* target and exact = FALSE it keeps the match whose target is nearest
RECURSIVE LastInstrScan(_, _, _, _, _, _, _)
LastInstrScan(offs, k, instr, target, exact, dist, res) ==
    IF k > Len(offs) THEN res
    ELSE LET o == offs[k]
         IN IF Rd(code, o) \notin instr
            THEN LastInstrScan(offs, k + 1, instr, target, exact, dist, res)
            ELSE IF target = PyNone
            THEN LastInstrScan(offs, k + 1, instr, target, exact, dist, o)
            ELSE LET dest == get_target(o)
                 IN IF IsErr(dest) THEN ERR
                    ELSE IF dest = target
                    THEN LastInstrScan(offs, k + 1, instr, target, exact, 0, o)
                    ELSE IF ~exact /\ Abs(target - dest) <= dist
                    THEN LastInstrScan(offs, k + 1, instr, target, exact,
                                       Abs(target - dest), o)
                    ELSE LastInstrScan(offs, k + 1, instr, target, exact, dist, res)

last_instr(start, end, instr, target, exact) ==
    IF ~(start >= 0 /\ end <= Len(code)) THEN PyNone
    ELSE LastInstrScan(op_range(start, end), 1, instr, target, exact,
                       Len(code), PyNone)

restrict_to_parent(target, parent) ==
    IF target < parent.start \/ target > parent.end THEN parent.end ELSE target

(***************************************************************************)
(* disassemble, first part: setup_code, build_lines_data, build_prev_op    *)
(* and the load_asserts scan.                                              *)
(***************************************************************************)
Fail(e) == pc' = (IF e = "hang" THEN "hang" ELSE "failed") /\ err' = e

\* the value of n setup_code computes over the whole byte array
last_return(hits) == IF hits = <<>> THEN -1 ELSE Last(hits) + 1

\* setup_code stopping at the first RETURN_VALUE or END_FINALLY
setup_code_first(full) ==
    IF \E k \in DOMAIN OpRangeIn(full, 0, Len(full)) :
          Rd(full, OpRangeIn(full, 0, Len(full))[k]) \in {RETURN_VALUE, END_FINALLY}
    THEN 1 + OpRangeIn(full, 0, Len(full))[
               CHOOSE k \in DOMAIN OpRangeIn(full, 0, Len(full)) :
                 /\ Rd(full, OpRangeIn(full, 0, Len(full))[k]) \in {RETURN_VALUE, END_FINALLY}
                 /\ \A j \in 1..(k - 1) :
                       Rd(full, OpRangeIn(full, 0, Len(full))[j]) \notin {RETURN_VALUE, END_FINALLY}]
    ELSE -1

setup_code_n(full) ==
    last_return(SelectSeq(OpRangeIn(full, 0, Len(full)),
                          LAMBDA i : Rd(full, i) \in {RETURN_VALUE, END_FINALLY}))

SetupCode ==
    /\ pc = "setup_code"
    /\ \E nn \in {setup_code_n(co.co_code)} :
          IF nn > -1
          THEN /\ code' = SubSeq(co.co_code, 1, nn)
               /\ n' = nn
               /\ pc' = "build_lines_data"
               /\ err' = err
          ELSE /\ code' = co.co_code
               /\ n' = n
               /\ Fail("AssertionError")
    /\ UNCHANGED emitvars
    /\ UNCHANGED <<earlier, chosen, co, lines, linestartoffsets, prev, load_asserts, stmts,
                   next_stmt, structs, loops, fixed_jumps, ignore_if,
                   not_continue, return_end_ifs, targets, cursor, tokens,
                   customize>>

linetuple(l_no, next) == [l_no |-> l_no, next |-> next]
Repeat(x, k) == [i \in 1..(IF k > 0 THEN k ELSE 0) |-> x]

\* the for loop of build_lines_data over linestarts[1:], from entry k on; acc
\* is self.lines (j is its length)
RECURSIVE LinesLoop(_, _, _, _, _)
LinesLoop(ls, k, acc, prev_line_no, nn) ==
    IF k > Len(ls)
    THEN acc \o Repeat(linetuple(prev_line_no, nn), nn - Len(acc))
    ELSE LET start_byte == ls[k][1]
         IN LinesLoop(ls, k + 1,
                      acc \o Repeat(linetuple(prev_line_no, start_byte),
                                    start_byte - Len(acc)),
                      start_byte, nn)

build_lines(ls, nn) == LinesLoop(ls, 2, <<>>, ls[1][2], nn)

RECURSIVE LineStartOffsets(_, _, _)
LineStartOffsets(ls, k, acc) ==
    IF k > Len(ls) THEN acc
    ELSE LineStartOffsets(ls, k + 1, Put(acc, ls[k][1], ls[k][2]))

BuildLinesData ==
    /\ pc = "build_lines_data"
    /\ lines' = build_lines(co.linestarts, n)
    /\ linestartoffsets' = LineStartOffsets(co.linestarts, 1, EmptyMap)
    /\ pc' = "build_prev_op"
    /\ UNCHANGED emitvars
    /\ UNCHANGED <<err, earlier, chosen, co, code, n, prev, load_asserts, stmts, next_stmt,
                   structs, loops, fixed_jumps, ignore_if, not_continue,
                   return_end_ifs, targets, cursor, tokens, customize>>

\* the entries the for loop of build_prev_op appends from instruction k of
\* offs on
RECURSIVE PrevLoop(_, _)
PrevLoop(offs, k) ==
    IF k > Len(offs) THEN <<>>
    ELSE (IF op_hasArgument(Rd(code, offs[k])) THEN <<offs[k], offs[k], offs[k]>>
          ELSE <<offs[k]>>) \o PrevLoop(offs, k + 1)

\* build_prev_op without the leading entry of self.prev
build_prev_unshifted(nn) == PrevLoop(op_range(0, nn), 1)

build_prev(nn) == <<0>> \o PrevLoop(op_range(0, nn), 1)

\* build_prev_op appending to the self.prev it finds
BuildPrevOpAppend ==
    /\ pc = "build_prev_op"
    /\ prev' = prev \o build_prev(n)
    /\ pc' = "load_asserts"
    /\ UNCHANGED emitvars
    /\ UNCHANGED <<err, earlier, chosen, co, code, n, lines, linestartoffsets, load_asserts,
                   stmts, next_stmt, structs, loops, fixed_jumps, ignore_if,
                   not_continue, return_end_ifs, targets, cursor, tokens,
                   customize>>

BuildPrevOp ==
    /\ pc = "build_prev_op"
    /\ prev' = build_prev(n)
    /\ pc' = "load_asserts"
    /\ UNCHANGED emitvars
    /\ UNCHANGED <<err, earlier, chosen, co, code, n, lines, linestartoffsets, load_asserts,
                   stmts, next_stmt, structs, loops, fixed_jumps, ignore_if,
                   not_continue, return_end_ifs, targets, cursor, tokens,
                   customize>>

\* disassemble lines 89-93: [e |-> error or 0, v |-> load_asserts]
RECURSIVE AssertsLoop(_, _, _)
AssertsLoop(offs, k, acc) ==
    IF k > Len(offs) THEN [e |-> 0, v |-> acc]
    ELSE LET i == offs[k]
         IN IF Rd(code, i) = PJIT
            THEN LET nxt == Rd(code, i + 3)
                     a == get_argument(i + 3)
                 IN IF IsErr(nxt) THEN [e |-> ERR, v |-> acc]
                    ELSE IF nxt # LOAD_GLOBAL THEN AssertsLoop(offs, k + 1, acc)
                    ELSE IF IsErr(a) \/ ~InIdx(co.co_names, a)
                    THEN [e |-> ERR, v |-> acc]
                    ELSE IF Rd(co.co_names, a) = "AssertionError"
                    THEN AssertsLoop(offs, k + 1, acc \cup {i + 3})
                    ELSE AssertsLoop(offs, k + 1, acc)
            ELSE AssertsLoop(offs, k + 1, acc)

LoadAsserts ==
    /\ pc = "load_asserts"
    /\ \E r \in {AssertsLoop(op_range(0, n), 1, {})} :
          /\ load_asserts' = r.v
          /\ IF r.e = 0 THEN pc' = "find_jump_targets" /\ err' = err
             ELSE Fail(ErrName(r.e))
    /\ UNCHANGED emitvars
    /\ UNCHANGED <<earlier, chosen, co, code, n, lines, linestartoffsets, prev, stmts,
                   next_stmt, structs, loops, fixed_jumps, ignore_if,
                   not_continue, return_end_ifs, targets, cursor, tokens,
                   customize>>

(***************************************************************************)
(* build_stmt_indices                                                      *)
(***************************************************************************)
\* a backward walk "while code[j] in ops: j = prev[j]": the offset it stops
\* at, ERR when a read raises, HANG when it reaches prev[0] = 0 and stays
RECURSIVE WalkBack(_, _)
WalkBack(j, ops) ==
    LET c == Rd(code, j)
    IN IF IsErr(j) \/ IsErr(c) THEN ERR
       ELSE IF c \notin ops THEN j
       ELSE IF Rd(prev, j) = j THEN HANG
       ELSE WalkBack(Rd(prev, j), ops)

\* the offsets the four (PJIF|PJIT, JF|JA) sequences add: prev[i] after the
\* two matching instructions; ERR among them when prev[i] raises
pass_stmts_of(end) ==
    LET starts == SeqToSet(op_range(0, end - 3))
        m == {i \in starts :
                 /\ Rd(code, i) \in {PJIF, PJIT}
                 /\ Rd(code, i + op_size(Rd(code, i))) \in {JF, JA}}
    IN {Rd(prev, i + op_size(Rd(code, i))
                   + op_size(Rd(code, i + op_size(Rd(code, i))))) : i \in m}

RECURSIVE SortSet(_)
SortSet(S) ==
    IF S = {} THEN <<>>
    ELSE LET m == CHOOSE x \in S : \A y \in S : x <= y
         IN <<m>> \o SortSet(S \ {m})

\* the filter loop over stmt_list from element k on.  st: stmts, sl: slist,
\* last_stmt, i as in the source
RECURSIVE StmtLoop(_, _, _, _, _, _, _)
StmtLoop(stmt_list, k, pass_stmts, st, sl, last_stmt, i) ==
    IF k > Len(stmt_list)
    THEN [e |-> 0, stmts |-> st,
          next_stmt |-> sl \o Repeat(Len(code), Len(code) - Len(sl))]
    ELSE
    LET s == stmt_list[k]
        c == Rd(code, s)
        drop == StmtLoop(stmt_list, k + 1, pass_stmts, st \ {s}, sl, last_stmt, i)
        keep == StmtLoop(stmt_list, k + 1, pass_stmts, st,
                         sl \o Repeat(s, s - i), s, s)
        raise(x) == [e |-> x, stmts |-> st, next_stmt |-> sl]
    IN IF c = JA /\ s \notin pass_stmts
       THEN LET target == get_target(s)
                l1 == Rd(lines, last_stmt)
                l2 == Rd(lines, s)
            IN IF IsErr(target) THEN raise(ERR)
               ELSE IF target > s THEN drop
               ELSE IF ~InIdx(lines, last_stmt) \/ ~InIdx(lines, s) THEN raise(ERR)
               ELSE IF l1.l_no = l2.l_no THEN drop
               ELSE LET j == WalkBack(Rd(prev, s), {JA})
                    IN IF IsErr(j) THEN raise(j)
                       ELSE IF Rd(code, j) = LIST_APPEND THEN drop
                       ELSE keep
       ELSE IF c = POP_TOP /\ Rd(code, Rd(prev, s)) = ROT_TWO THEN drop
       ELSE IF c \in designator_ops
       THEN LET j == WalkBack(Rd(prev, s), designator_ops)
            IN IF IsErr(j) THEN raise(j)
               ELSE IF Rd(code, j) = FOR_ITER THEN drop
               ELSE keep
       ELSE keep

\* build_stmt_indices with i starting at 1
stmt_indices_from_one(pa, pass_stmts) ==
    IF pa.e # 0 THEN [e |-> pa.e, stmts |-> {}, next_stmt |-> <<>>]
    ELSE IF \E x \in pass_stmts : IsErr(x)
    THEN [e |-> ERR, stmts |-> SeqToSet(pa.v), next_stmt |-> <<>>]
    ELSE StmtLoop(IF pass_stmts # {} THEN SortSet(SeqToSet(pa.v) \cup pass_stmts)
                  ELSE pa.v,
                  1, pass_stmts, SeqToSet(pa.v) \cup pass_stmts, <<>>, -1, 1)

\* pa is the all_instr result for stmt_opcodes (prelim), pass_stmts the
\* offsets the four sequences add
stmt_indices_of(pa, pass_stmts) ==
    IF pa.e # 0 THEN [e |-> pa.e, stmts |-> {}, next_stmt |-> <<>>]
    ELSE IF \E x \in pass_stmts : IsErr(x)
    THEN [e |-> ERR, stmts |-> SeqToSet(pa.v), next_stmt |-> <<>>]
    ELSE StmtLoop(IF pass_stmts # {} THEN SortSet(SeqToSet(pa.v) \cup pass_stmts)
                  ELSE pa.v,
                  1, pass_stmts, SeqToSet(pa.v) \cup pass_stmts, <<>>, -1, 0)

build_stmt_indices ==
    stmt_indices_of(all_instr(0, Len(code), stmt_opcodes, PyNone, FALSE),
                    pass_stmts_of(Len(code)))

root_struct == [type |-> "root", start |-> 0, end |-> Len(code) - 1]

\* find_jump_targets up to its forward pass: the resets and build_stmt_indices
FindJumpTargetsInit ==
    /\ pc = "find_jump_targets"
    /\ structs' = <<root_struct>>
    /\ loops' = <<>>
    /\ fixed_jumps' = EmptyMap
    /\ ignore_if' = {}
    /\ \E r \in {build_stmt_indices} :
          /\ stmts' = r.stmts
          /\ next_stmt' = r.next_stmt
          /\ IF r.e = 0
             THEN /\ pc' = "detect"
                  /\ err' = err
                  /\ not_continue' = {}
                  /\ return_end_ifs' = {}
                  /\ targets' = EmptyMap
                  /\ cursor' = 0
             ELSE /\ Fail(ErrName(r.e))
                  /\ UNCHANGED <<not_continue, return_end_ifs, targets, cursor>>
    /\ UNCHANGED emitvars
    /\ UNCHANGED <<earlier, chosen, co, code, n, lines, linestartoffsets, prev, load_asserts,
                   tokens, customize>>

(***************************************************************************)
(* detect_structure.  S is the part of self it writes: structs,            *)
(* fixed_jumps, ignore_if, not_continue, return_end_ifs, load_asserts,     *)
(* loops; S.e is 0 or the error that aborted it.                           *)
(***************************************************************************)
\* lines[k].l_no and lines[k].next
LineNo(k) == IF InIdx(lines, k) THEN Rd(lines, k).l_no ELSE ERR
LineNext(k) == IF InIdx(lines, k) THEN Rd(lines, k).next ELSE ERR

Struct(type, start, end) == [type |-> type, start |-> start, end |-> end]
\* no parent looked up yet
NoStruct == Struct("", 0, 0)
Raise(S, x) == [S EXCEPT !.e = x]
Falsy(x) == x = PyNone \/ x = 0

\* the parent lookup loop over self.structs, from element k on
RECURSIVE ParentLoop(_, _, _, _)
ParentLoop(ss, k, p, parent) ==
    IF k > Len(ss) THEN parent
    ELSE LET s == ss[k]
         IN IF (s.start <= p /\ p < s.end)
               /\ (s.start >= parent.start /\ s.end <= parent.end)
            THEN ParentLoop(ss, k + 1, p, s)
            ELSE ParentLoop(ss, k + 1, p, parent)

\* the first struct of the list that contains p within root, else root
find_parent_first(ss, p) ==
    LET c == {k \in 2..Len(ss) : /\ ss[k].start <= p /\ p < ss[k].end
                                 /\ ss[k].start >= ss[1].start
                                 /\ ss[k].end <= ss[1].end}
    IN IF c = {} THEN ss[1] ELSE ss[CHOOSE k \in c : \A j \in c : k <= j]

find_parent(ss, p) == ParentLoop(ss, 1, p, ss[1])

\* the tail of the SETUP_LOOP branch (lines 464-471)
loop_finish(S, loop_type, target, jump_back, end) ==
    [S EXCEPT !.loops = Append(@, target),
              !.structs = Append(@, Struct(loop_type \o "-loop", target, jump_back))
                          \o (IF jump_back + 3 # end
                              THEN <<Struct(loop_type \o "-else", jump_back + 3, end)>>
                              ELSE <<>>)]

\* lines 417-422: jump_back after the "loop ends in return" test
ends_in_return(jb0, pe, c3, cpe, cppe) ==
            IF IsErr(pe) THEN ERR
            ELSE IF jb0 = pe THEN jb0
            ELSE IF IsErr(c3) THEN ERR
            ELSE IF c3 \notin jump_forward THEN jb0
            ELSE IF IsErr(cpe) THEN ERR
            ELSE IF cpe = RETURN_VALUE THEN PyNone
            ELSE IF cpe # POP_BLOCK THEN jb0
            ELSE IF IsErr(cppe) THEN ERR
            ELSE IF cppe = RETURN_VALUE THEN PyNone
            ELSE jb0

loop_jump_back1(jb0, end) ==
    IF Falsy(jb0) THEN jb0
    ELSE ends_in_return(jb0, Rd(prev, end), Rd(code, jb0 + 3),
                        Rd(code, Rd(prev, end)), Rd(code, Rd(prev, Rd(prev, end))))

\* the loop suite ends in return, with jump_back added to not_continue
loop_return_marking(S, next_line_byte, li, test) ==
    LET jump_back == li + 1
        ct == Rd(code, test)
    IN IF IsErr(li) THEN Raise(S, li)
       ELSE IF li = PyNone THEN Raise(S, TERR)
       ELSE IF jump_back = 0 THEN S
       ELSE IF IsErr(test) \/ IsErr(ct) THEN Raise(S, ERR)
       ELSE IF ct \notin pop_jump_if
       THEN loop_finish([S EXCEPT !.not_continue = @ \cup {jump_back}], "for",
                        next_line_byte, jump_back, jump_back + 3)
       ELSE loop_finish([S EXCEPT !.ignore_if = @ \cup {test},
                                  !.not_continue = @ \cup {jump_back}], "while",
                        next_line_byte, jump_back, jump_back + 3)

\* lines 423-436: the loop suite ends in return
loop_return_at(S, next_line_byte, li, test) ==
    LET jump_back == li + 1
        ct == Rd(code, test)
    IN IF IsErr(li) THEN Raise(S, li)
       ELSE IF li = PyNone THEN Raise(S, TERR)
       ELSE IF jump_back = 0 THEN S
       ELSE IF IsErr(test) \/ IsErr(ct) THEN Raise(S, ERR)
       ELSE IF ct \notin pop_jump_if
       THEN loop_finish(S, "for", next_line_byte, jump_back, jump_back + 3)
       ELSE loop_finish([S EXCEPT !.ignore_if = @ \cup {test}], "while",
                        next_line_byte, jump_back, jump_back + 3)

loop_return(S, start, end, next_line_byte) ==
    loop_return_at(S, next_line_byte,
                   last_instr(start, end, {RETURN_VALUE}, PyNone, TRUE),
                   Rd(prev, next_line_byte))

\* lines 438-463: the loop closed by a backward jump.  loop_kind is the
\* type test of lines 449-463
loop_kind(S1, p, next_line_byte, jb2, end, target2, test, test_target) ==
    LET ct == Rd(code, target2)
        ctest == Rd(code, test)
    IN IF IsErr(target2) \/ IsErr(ct) THEN Raise(S1, ERR)
       ELSE IF ct \in {FOR_ITER, GET_ITER}
       THEN loop_finish([S1 EXCEPT !.not_continue = @ \cup {jb2}],
                        "for", target2, jb2, end)
       ELSE IF IsErr(test) THEN Raise(S1, ERR)
       ELSE IF test = p
       THEN loop_finish([S1 EXCEPT !.not_continue = @ \cup {jb2}],
                        "while 1", target2, jb2, end)
       ELSE IF IsErr(ctest) THEN Raise(S1, ERR)
       ELSE IF ctest \notin (hasjabs \cup hasjrel)
       THEN loop_finish([S1 EXCEPT !.not_continue = @ \cup {jb2}],
                        "while", target2, jb2, end)
       ELSE IF IsErr(test_target)
       THEN Raise([S1 EXCEPT !.ignore_if = @ \cup {test}], ERR)
       ELSE loop_finish([S1 EXCEPT !.ignore_if = @ \cup {test},
                                   !.not_continue = @ \cup
                                       {IF test_target > jb2 + 3
                                        THEN test_target ELSE jb2}],
                        "while", target2,
                        IF test_target > jb2 + 3 THEN test_target ELSE jb2, end)

\* lines 440-447: ce, c4, g1, g2 are code[end], code[jump_back+4] and the
\* targets of jump_back+4 and end
loop_close(S, p, target, end0, next_line_byte, jb2, ce, c4, g1, g2) ==
    LET cond == end0 > jb2 + 4 /\ ce \in jump_forward
        e1 == IF IsErr(jb2) THEN jb2
              ELSE IF jb2 = PyNone THEN TERR
              ELSE IF end0 > jb2 + 4 /\ IsErr(ce) THEN ERR
              ELSE IF cond /\ IsErr(c4) THEN ERR
              ELSE IF cond /\ c4 \in jump_forward /\ (IsErr(g1) \/ IsErr(g2)) THEN ERR
              ELSE 0
        refix == IF cond THEN c4 \in jump_forward /\ g1 = g2 ELSE target < p
    IN IF e1 # 0 THEN Raise(S, e1)
       ELSE loop_kind(IF refix THEN [S EXCEPT !.fixed_jumps = Put(@, p, jb2 + 4)]
                      ELSE S,
                      p, next_line_byte, jb2, IF refix THEN jb2 + 4 ELSE end0,
                      get_target_op(jb2, JA), Rd(prev, next_line_byte),
                      get_target(Rd(prev, next_line_byte)))

\* lines 438-439: gt is the target of the jump_back found so far
loop_jump_back2(start, end0, next_line_byte, jb1, gt) ==
    IF IsErr(gt) THEN ERR
    ELSE IF gt >= next_line_byte THEN last_instr(start, end0, {JA}, start, FALSE)
    ELSE jb1

loop_at(S, p, start, target, end0, next_line_byte, jb2) ==
    loop_close(S, p, target, end0, next_line_byte, jb2, Rd(code, end0),
               Rd(code, jb2 + 4), get_target(jb2 + 4), get_target(end0))

loop_normal(S, p, start, target, end0, next_line_byte, jb1) ==
    loop_at(S, p, start, target, end0, next_line_byte,
            loop_jump_back2(start, end0, next_line_byte, jb1, get_target(jb1)))

\* lines 405-436: the SETUP_LOOP branch, by the values it computes in turn
loop_body(S1, p, target, end, next_line_byte, jb1) ==
    IF IsErr(jb1) THEN Raise(S1, jb1)
    ELSE IF Falsy(jb1) THEN loop_return(S1, p + 3, end, next_line_byte)
    ELSE loop_normal(S1, p, p + 3, target, end, next_line_byte, jb1)

loop_back(S1, p, target, end, next_line_byte, jb0) ==
    IF IsErr(next_line_byte) THEN Raise(S1, ERR)
    ELSE IF IsErr(jb0) THEN Raise(S1, jb0)
    ELSE loop_body(S1, p, target, end, next_line_byte, loop_jump_back1(jb0, end))

loop_end(S, p, target, end, next_line_byte) ==
    IF IsErr(target) THEN Raise(S, ERR)
    ELSE loop_back(IF target # end THEN [S EXCEPT !.fixed_jumps = Put(@, p, end)]
                   ELSE S,
                   p, target, end, next_line_byte,
                   last_instr(p + 3, end, {JA}, next_line_byte, FALSE))

loop_target(S, p, parent, target) ==
    loop_end(S, p, target, restrict_to_parent(target, parent), LineNext(p))

detect_SETUP_LOOP(S, p, op, parent) ==
    loop_target(S, p, parent, get_target_op(p, op))

\* next_except_jump: [jmp |-> the offset, None or an error, S |-> self after]
RECURSIVE CountLoop(_, _, _, _, _)
CountLoop(S, offs, k, count_END_FINALLY, count_SETUP_) ==
    IF k > Len(offs) THEN [jmp |-> PyNone, S |-> S]
    ELSE LET i == offs[k]
             op == Rd(code, i)
             pi == Rd(prev, i)
         IN IF op = END_FINALLY
            THEN IF count_END_FINALLY = count_SETUP_
                 THEN IF IsErr(pi) \/ IsErr(Rd(code, pi)) THEN [jmp |-> ERR, S |-> S]
                      ELSE IF version = 27
                              /\ Rd(code, pi) \notin (jump_forward \cup {RETURN_VALUE})
                      THEN [jmp |-> AERR, S |-> S]
                      ELSE [jmp |-> pi,
                            S |-> [S EXCEPT !.not_continue = @ \cup {pi}]]
                 ELSE CountLoop(S, offs, k + 1, count_END_FINALLY + 1, count_SETUP_)
            ELSE IF op \in setup_ops
            THEN CountLoop(S, offs, k + 1, count_END_FINALLY, count_SETUP_ + 1)
            ELSE CountLoop(S, offs, k + 1, count_END_FINALLY, count_SETUP_)

\* lines 367-378: the count of END_FINALLY against SETUP_ from start on
except_jump_count(S, start) == CountLoop(S, op_range(start, Len(code)), 1, 0, 0)

\* lines 358-363: jmp is prev[get_target(except_match)]
except_jump_at(S, except_match, jmp) ==
    IF IsErr(jmp) THEN [jmp |-> ERR, S |-> S]
    ELSE [jmp |-> jmp,
          S |-> [S EXCEPT !.ignore_if = @ \cup {except_match},
                          !.not_continue = @ \cup {jmp}]]

except_jump_match(S, start, except_match) ==
    IF IsErr(except_match) THEN [jmp |-> except_match, S |-> S]
    ELSE IF Falsy(except_match) THEN except_jump_count(S, start)
    ELSE except_jump_at(S, except_match, Rd(prev, get_target(except_match)))

next_except_jump(S, start) ==
    IF Rd(code, start) = DUP_TOP
    THEN except_jump_match(S, start, first_instr(start, Len(code), {PJIF}))
    ELSE except_jump_count(S, start)

\* the while loop of the SETUP_EXCEPT branch (lines 487-506); seen holds the
\* values i has taken: i is a function of the previous i alone, so the loop
\* never ends once an i comes back.  ExceptBlock is one iteration once
\* next_except_jump returned r; gt is get_target(jmp)
ExceptDone(S, i, end_else) == [S |-> S, i |-> i, end_else |-> end_else]

RECURSIVE ExceptWalk(_, _, _, _, _)
RECURSIVE ExceptBlock(_, _, _, _, _, _)
ExceptBlock(i, end_else, start_else, seen, r, gt) ==
    LET jmp == r.jmp
        cj == Rd(code, jmp)
    IN IF IsErr(jmp) THEN ExceptDone(Raise(r.S, jmp), i, end_else)
       ELSE IF jmp = PyNone
       THEN IF IsErr(Rd(next_stmt, i)) THEN ExceptDone(Raise(r.S, ERR), i, end_else)
            ELSE ExceptWalk(r.S, Rd(next_stmt, i), end_else, start_else, seen \cup {i})
       ELSE IF IsErr(cj) THEN ExceptDone(Raise(r.S, ERR), i, end_else)
       ELSE IF cj = RETURN_VALUE
       THEN ExceptWalk([r.S EXCEPT !.structs = Append(@, Struct("except", i, jmp + 1))],
                       jmp + 1, end_else, start_else, seen \cup {i})
       ELSE IF IsErr(gt) THEN ExceptDone(Raise(r.S, ERR), i, end_else)
       ELSE ExceptWalk([r.S EXCEPT !.fixed_jumps = IF cj = JF THEN Put(@, jmp, -1)
                                                  ELSE @,
                                   !.structs = Append(@, Struct("except", i, jmp))],
                       jmp + 3,
                       IF gt # start_else THEN gt ELSE end_else,
                       start_else, seen \cup {i})

ExceptStep(i, end_else, start_else, seen, r) ==
    ExceptBlock(i, end_else, start_else, seen, r, get_target(r.jmp))

ExceptWalk(S, i, end_else, start_else, seen) ==
    IF ~(i < Len(code)) THEN ExceptDone(S, i, end_else)
    ELSE IF IsErr(Rd(code, i)) THEN ExceptDone(Raise(S, ERR), i, end_else)
    ELSE IF Rd(code, i) = END_FINALLY THEN ExceptDone(S, i, end_else)
    ELSE IF i \in seen THEN ExceptDone(Raise(S, HANG), i, end_else)
    ELSE ExceptStep(i, end_else, start_else, seen, next_except_jump(S, i))

\* lines 472-516: the SETUP_EXCEPT branch, by the values it computes in turn
try_else(parent, start_else, w) ==
    IF w.S.e # 0 THEN w.S
    ELSE IF w.end_else # start_else
    THEN [w.S EXCEPT !.structs = Append(@, Struct("try-else", w.i + 1,
                                     restrict_to_parent(w.end_else, parent))),
                     !.fixed_jumps = Put(@, w.i,
                                     restrict_to_parent(w.end_else, parent))]
    ELSE [w.S EXCEPT !.fixed_jumps = Put(@, w.i, w.i + 1)]

try_block(S2, parent, end, start_else) ==
    IF IsErr(start_else) THEN Raise(S2, ERR)
    ELSE try_else(parent, start_else,
                  ExceptWalk(S2, end, start_else, start_else, {}))

try_end(S, p, parent, target, end) ==
    try_block([S EXCEPT !.fixed_jumps = IF target # end THEN Put(@, p, end) ELSE @,
                        !.structs = Append(@, Struct("try", p + 3, end - 4))],
              parent, end, get_target(Rd(prev, end)))

try_target(S, p, parent, target) ==
    IF IsErr(target) THEN Raise(S, ERR)
    ELSE try_end(S, p, parent, target, restrict_to_parent(target, parent))

detect_SETUP_EXCEPT(S, p, op, parent) ==
    try_target(S, p, parent, get_target_op(p, op))

detect_pop_jump_if_or_pop(S, p, op, parent) ==
    LET target == get_target_op(p, op)
    IN IF IsErr(target) THEN Raise(S, ERR)
       ELSE [S EXCEPT !.fixed_jumps = Put(@, p, restrict_to_parent(target, parent))]

(***************************************************************************)
(* Conditions that may raise: 1 is true, 0 is false, an error value is     *)
(* the exception; CAnd and COr short-circuit as Python's and / or do.      *)
(***************************************************************************)
B(b) == IF b THEN 1 ELSE 0
CAnd(a, b) == IF IsErr(a) THEN a ELSE IF a = 0 THEN 0 ELSE b
COr(a, b) == IF IsErr(a) THEN a ELSE IF a = 1 THEN 1 ELSE b
CNot(a) == IF IsErr(a) THEN a ELSE 1 - a
In(v, set) == IF IsErr(v) THEN v ELSE B(v \in set)
Eq(a, b) == IF IsErr(a) THEN a ELSE IF IsErr(b) THEN b ELSE B(a = b)
Gt(a, b) == IF IsErr(a) THEN a ELSE IF IsErr(b) THEN b ELSE B(a > b)
C(k) == Rd(code, k)
P(k) == Rd(prev, k)

\* remove_mid_line_ifs over a list result r = [e, v]
RECURSIVE MidLineLoop(_, _, _)
\* skip: the if at ifs[k] is in the middle of its line
MidLineStep(ifs, k, acc, skip) ==
    IF IsErr(skip) THEN [e |-> skip, v |-> acc]
    ELSE IF skip = 1 THEN MidLineLoop(ifs, k + 1, acc)
    ELSE MidLineLoop(ifs, k + 1, Append(acc, ifs[k]))

MidLineLoop(ifs, k, acc) ==
    IF k > Len(ifs) THEN [e |-> 0, v |-> acc]
    ELSE MidLineStep(ifs, k, acc,
                     CAnd(Eq(LineNo(ifs[k]), LineNo(ifs[k] + 3)),
                          In(C(P(LineNext(ifs[k]))), {PJIT, PJIF})))

remove_mid_line_ifs(r) ==
    IF r.e # 0 THEN r ELSE MidLineLoop(r.v, 1, <<>>)

\* rem_or: the loop over pjit_offsets filtering instr_offsets
RECURSIVE RemOrLoop(_, _, _)
RemOrLoop(pjits, k, instr_offsets) ==
    IF k > Len(pjits) THEN [e |-> 0, v |-> instr_offsets]
    ELSE LET pjit_offset == pjits[k]
             pjit_tgt == get_target(pjit_offset) - 3
         IN IF IsErr(pjit_tgt) THEN [e |-> ERR, v |-> <<>>]
            ELSE RemOrLoop(pjits, k + 1,
                           SelectSeq(instr_offsets,
                                     LAMBDA o : o <= pjit_offset \/ o >= pjit_tgt))

rem_or_of(instr_offsets, pjit_offsets) ==
    IF instr_offsets.e # 0 THEN instr_offsets
    ELSE IF pjit_offsets.e # 0 THEN pjit_offsets
    ELSE RemOrLoop(pjit_offsets.v, 1, instr_offsets.v)

rem_or(start, end, instr, target, include_beyond_target) ==
    IF IsErr(start) \/ IsErr(end) THEN [e |-> ERR, v |-> <<>>]
    ELSE rem_or_of(all_instr(start, end, instr, target, include_beyond_target),
                   all_instr(start, end, {PJIT}, PyNone, FALSE))

Truthy(r) == IF r.e # 0 THEN r.e ELSE B(r.v # <<>>)
LenIs1(r) == IF r.e # 0 THEN r.e ELSE B(Len(r.v) = 1)
\* 1 == len(set(a) | set(b))
UnionIs1(a, b) ==
    IF a.e # 0 THEN a.e ELSE IF b.e # 0 THEN b.e
    ELSE B(Cardinality(SeqToSet(a.v) \cup SeqToSet(b.v)) = 1)

\* lines 572-581: the first PJIF to the same target that ends its line, while
\* every PJIF before it had that target; None when there is none
RECURSIVE FixLoop(_, _, _, _)
FixLoop(jump_ifs, k, target, last_jump_good) ==
    IF k > Len(jump_ifs) THEN PyNone
    ELSE LET j == jump_ifs[k]
             t == get_target(j)
         IN IF IsErr(t) THEN ERR
            ELSE IF target = t
            THEN IF last_jump_good /\ IsErr(LineNext(j)) THEN ERR
                 ELSE IF LineNext(j) = j + 3 /\ last_jump_good THEN j
                 ELSE FixLoop(jump_ifs, k + 1, target, last_jump_good)
            ELSE FixLoop(jump_ifs, k + 1, target, FALSE)

\* The PJIF and PJIT parts answer [S |-> self after, ret |-> whether
\* detect_structure returned (or raised) there]
Ret(S) == [S |-> S, ret |-> TRUE]
Go(S) == [S |-> S, ret |-> FALSE]
Fix(S, p, v) == [S EXCEPT !.fixed_jumps = Put(@, p, v)]

\* a condition c that may raise decides between two outcomes
When(c, t, f) == IF IsErr(c) THEN c ELSE IF c = 1 THEN t ELSE f
WhenS(c, S, t, f) == IF IsErr(c) THEN Raise(S, c) ELSE IF c = 1 THEN t ELSE f
WhenR(c, S, t, f) == IF IsErr(c) THEN Ret(Raise(S, c)) ELSE IF c = 1 THEN t ELSE f

\* lines 543-586: the PJIF part.  pr is pre[rtarget], ppr is pre[pre[rtarget]]
pjif_forward(pr, gpr, rtarget, parent) ==
    CAnd(In(C(pr), jump_forward),
    CAnd(B(pr \notin stmts),
         Eq(IF IsErr(gpr) THEN gpr ELSE restrict_to_parent(gpr, parent), rtarget)))

pjif_loop(p, start, target, ppr, gppr) ==
    CAnd(Eq(C(ppr), JA),
    CAnd(Truthy(remove_mid_line_ifs([e |-> 0, v |-> <<p>>])),
    CAnd(Eq(target, gppr),
    CAnd(COr(B(ppr \notin stmts), Gt(gppr, ppr)),
         LenIs1(remove_mid_line_ifs(
                    rem_or(start, ppr, pop_jump_if, target, FALSE)))))))

pjif_return(p, start, target, pr, ppr) ==
    CAnd(Eq(C(ppr), RETURN_VALUE),
    CAnd(Truthy(remove_mid_line_ifs([e |-> 0, v |-> <<p>>])),
         UnionIs1(remove_mid_line_ifs(
                      rem_or(start, ppr, pop_jump_if, target, FALSE)),
                  remove_mid_line_ifs(
                      rem_or(start, ppr, {PJIF, PJIT, JA}, pr, TRUE)))))

pjif_set(S, p, match, fix) ==
    IF IsErr(fix) THEN Ret(Raise(S, fix))
    ELSE Ret(Fix(S, p, IF Falsy(fix) THEN Last(match.v) ELSE fix))

pjif_jump(S, p, target, match, jump_ifs) ==
    IF jump_ifs.e # 0 THEN Ret(Raise(S, jump_ifs.e))
    ELSE pjif_set(S, p, match, FixLoop(jump_ifs.v, 1, target, TRUE))

pjif_and(S, p, start, target, rtarget, parent, ns, match, pr, ppr) ==
    WhenR(pjif_forward(pr, get_target(pr), rtarget, parent), S,
          WhenR(pjif_loop(p, start, target, ppr, get_target(ppr)), S,
                Go(S),
                WhenR(pjif_return(p, start, target, pr, ppr), S,
                      Go(S),
                      pjif_jump(S, p, target, match,
                                all_instr(start, ns, {PJIF}, PyNone, FALSE)))),
          Ret(Fix(S, p, Last(match.v))))

pjif_match(S, p, start, target, rtarget, parent, ns, match) ==
    IF match.e # 0 THEN Ret(Raise(S, match.e))
    ELSE IF match.v = <<>> THEN Go(S)
    ELSE pjif_and(S, p, start, target, rtarget, parent, ns, match,
                  P(rtarget), P(P(rtarget)))

pjif_stmt(S, p, start, target, rtarget, parent, ns) ==
    IF IsErr(ns) THEN Ret(Raise(S, ERR))
    ELSE pjif_match(S, p, start, target, rtarget, parent, ns,
                    rem_or(start, ns, {PJIF}, target, FALSE))

detect_PJIF(S, p, start, target, rtarget, parent) ==
    pjif_stmt(S, p, start, target, rtarget, parent, Rd(next_stmt, p))

\* lines 587-608: the PJIT part.  S1 is self once pos+3 left load_asserts
pjit_next(S1, p, target, rtarget, next, next_target) ==
    WhenR(Eq(P(next), p), S1,
          Go(S1),
          WhenR(CAnd(In(C(next), jump_forward), Eq(target, next_target)), S1,
                WhenR(Eq(C(P(next)), PJIF), S1,
                      WhenR(COr(Eq(C(next), JF),
                            COr(B(target # rtarget),
                                CNot(In(C(P(P(rtarget))), {JA, RETURN_VALUE})))), S1,
                            Ret(Fix(S1, p, P(next))),
                            Go(S1)),
                      Go(S1)),
                WhenR(CAnd(Eq(C(next), JA), In(C(target), jump_forward)), S1,
                      WhenR(Eq(get_target(target), next_target), S1,
                            Ret(Fix(S1, p, P(next))),
                            WhenR(CAnd(In(C(next_target), jump_forward),
                                       Eq(get_target(next_target),
                                          get_target(target))), S1,
                                  Ret(Fix(S1, p, P(next))),
                                  Go(S1))),
                      Go(S1))))

pjit_stmt(S1, p, target, rtarget, next) ==
    pjit_next(S1, p, target, rtarget, next, get_target(next))

pjit_assert(S, p, target, rtarget, cpr) ==
    IF IsErr(cpr) THEN Ret(Raise(S, ERR))
    ELSE IF cpr = RAISE_VARARGS THEN Ret(S)
    ELSE pjit_stmt([S EXCEPT !.load_asserts = @ \ {p + 3}], p, target, rtarget,
                   Rd(next_stmt, p))

detect_PJIT(S, p, start, target, rtarget, parent) ==
    IF (p + 3) \in S.load_asserts
    THEN pjit_assert(S, p, target, rtarget, C(P(rtarget)))
    ELSE pjit_stmt(S, p, target, rtarget, Rd(next_stmt, p))

\* lines 614-624: rtarget moved back over a JUMP_ABSOLUTE statement
if_rtarget_at(p, target, rtarget, pr) ==
    When(CAnd(Eq(C(pr), JA),
         CAnd(B(pr \in stmts),
         CAnd(B(pr # p), CNot(Eq(P(pr), p))))),
         When(CAnd(Eq(C(rtarget), JA), Eq(C(rtarget + 3), POP_BLOCK)),
              When(CNot(Eq(C(P(pr)), JA)),
                   rtarget,
                   When(CNot(Eq(get_target(P(pr)), target)), rtarget, pr)),
              pr),
         rtarget)

if_rtarget(p, target, rtarget) == if_rtarget_at(p, target, rtarget, P(rtarget))

\* lines 626-650: pr is pre[rtarget], c its opcode and if_end its target
if_else(S, start, rtarget, pr, end) ==
    [S EXCEPT !.structs = Append(@, Struct("if-then", start, pr))
                          \o (IF rtarget < end
                              THEN <<Struct("if-else", rtarget, end)>>
                              ELSE <<>>),
              !.not_continue = @ \cup {pr}]

if_block(S, start, parent, rtarget, pr, c, if_end) ==
    IF IsErr(c) THEN Raise(S, ERR)
    ELSE IF c \in jump_forward
    THEN IF IsErr(if_end) THEN Raise(S, ERR)
         ELSE WhenS(CAnd(B(if_end < pr), Eq(C(P(if_end)), SETUP_LOOP)), S,
                    IF if_end > start THEN S
                    ELSE if_else(S, start, rtarget, pr,
                                 restrict_to_parent(if_end, parent)),
                    if_else(S, start, rtarget, pr,
                            restrict_to_parent(if_end, parent)))
    ELSE IF c = RETURN_VALUE
    THEN [S EXCEPT !.structs = Append(@, Struct("if-then", start, rtarget)),
                   !.return_end_ifs = @ \cup {pr}]
    ELSE S

if_struct(S, start, parent, rtarget) ==
    IF IsErr(rtarget) THEN Raise(S, rtarget)
    ELSE if_block(S, start, parent, rtarget, P(rtarget), C(P(rtarget)),
                  get_target(P(rtarget)))

\* lines 610-650
detect_if(S, p, start, target, rtarget0, parent) ==
    IF p \in S.ignore_if THEN S
    ELSE if_struct(S, start, parent, if_rtarget(p, target, rtarget0))

\* lines 518-650: r is what the PJIF or PJIT part answered
pop_jump_struct(p, target, rtarget, parent, r) ==
    IF r.ret THEN r.S ELSE detect_if(r.S, p, p + 3, target, rtarget, parent)

pop_jump_and_or(S, p, op, parent, target, rtarget, pt) ==
    IF target # rtarget /\ parent.type = "and/or" THEN Fix(S, p, rtarget)
    ELSE WhenS(CAnd(In(C(pt), pop_jump_if_or_pop \cup pop_jump_if), B(target > p)), S,
               [S EXCEPT !.fixed_jumps = Put(@, p, pt),
                         !.structs = Append(@, Struct("and/or", p + 3, pt))],
               pop_jump_struct(p, target, rtarget, parent,
                   IF op = PJIF
                   THEN detect_PJIF(S, p, p + 3, target, rtarget, parent)
                   ELSE detect_PJIT(S, p, p + 3, target, rtarget, parent)))

pop_jump_target(S, p, op, parent, target) ==
    IF IsErr(target) THEN Raise(S, ERR)
    ELSE pop_jump_and_or(S, p, op, parent, target,
                         restrict_to_parent(target, parent), P(target))

detect_pop_jump_if(S, p, op, parent) ==
    pop_jump_target(S, p, op, parent, get_target_op(p, op))

detect_structure(S, p, op) ==
    LET parent == find_parent(S.structs, p)
    IN IF op = SETUP_LOOP THEN detect_SETUP_LOOP(S, p, op, parent)
       ELSE IF op = SETUP_EXCEPT THEN detect_SETUP_EXCEPT(S, p, op, parent)
       ELSE IF op \in pop_jump_if THEN detect_pop_jump_if(S, p, op, parent)
       ELSE IF op \in pop_jump_if_or_pop THEN detect_pop_jump_if_or_pop(S, p, op, parent)
       ELSE S

(***************************************************************************)
(* find_jump_targets: one iteration of the forward pass                    *)
(***************************************************************************)
\* a target that keeps only its latest source
SetTarget(tg, label, i) == Put(tg, label, <<i>>)

AddTarget(tg, label, i) ==
    Put(tg, label, (IF label \in DOMAIN tg THEN tg[label] ELSE <<>>) \o <<i>>)

\* lines 687-702: the label collected for offset i, None when there is none
label_of(fj, i, op) ==
    LET oparg == get_argument(i)
    IN IF op >= HAVE_ARGUMENT
       THEN IF IsErr(oparg) THEN ERR
            ELSE IF i \in DOMAIN fj THEN fj[i]
            ELSE IF op \in hasjrel /\ op # FOR_ITER THEN i + 3 + oparg
            ELSE IF version = 27 /\ op \in hasjabs
                    /\ op \in {JUMP_IF_FALSE_OR_POP, JUMP_IF_TRUE_OR_POP}
                    /\ oparg > i
            THEN oparg
            ELSE PyNone
       ELSE IF op = END_FINALLY /\ i \in DOMAIN fj THEN fj[i]
       ELSE PyNone

collect(tg, fj, i, op) ==
    LET label == label_of(fj, i, op)
    IN IF op >= HAVE_ARGUMENT
       THEN IF label # PyNone /\ label # -1 THEN AddTarget(tg, label, i) ELSE tg
       ELSE IF label # PyNone THEN AddTarget(tg, label, i) ELSE tg

self_of ==
    [structs |-> structs, fixed_jumps |-> fixed_jumps, ignore_if |-> ignore_if,
     not_continue |-> not_continue, return_end_ifs |-> return_end_ifs,
     load_asserts |-> load_asserts, loops |-> loops, e |-> 0]

FindStep ==
    /\ pc = "detect"
    /\ \E S \in {detect_structure(self_of, cursor, Rd(code, cursor))} :
       \E lab \in {label_of(S.fixed_jumps, cursor, Rd(code, cursor))} :
       LET i == cursor
           op == Rd(code, i)
           nxt == i + op_size(op)
       IN /\ structs' = S.structs
          /\ fixed_jumps' = S.fixed_jumps
          /\ ignore_if' = S.ignore_if
          /\ not_continue' = S.not_continue
          /\ return_end_ifs' = S.return_end_ifs
          /\ load_asserts' = S.load_asserts
          /\ loops' = S.loops
          /\ chosen' = find_parent(structs, cursor)
          /\ IF S.e # 0
             THEN Fail(ErrName(S.e)) /\ UNCHANGED <<targets, cursor>>
             ELSE IF IsErr(lab)
             THEN Fail(ErrName(lab)) /\ UNCHANGED <<targets, cursor>>
             ELSE /\ targets' = collect(targets, S.fixed_jumps, i, op)
                  /\ cursor' = nxt
                  /\ pc' = IF nxt < n THEN "detect" ELSE "replace"
                  /\ err' = err
    /\ UNCHANGED emitvars
    /\ UNCHANGED <<earlier, co, code, n, lines, linestartoffsets, prev, stmts,
                   next_stmt, tokens, customize>>

(***************************************************************************)
(* disassemble, second part: the replace map and the token emission loop.  *)
(* A token is [kind, k, attr, code, pattr, offset, sub, linestart]: its    *)
(* name is kind, or kind_k when k is not None ('%s_%d' % (opname, oparg)); *)
(* a COME_FROM's offset "t_k" is offset = t with sub = k, a real token     *)
(* has sub = None; code names the code object an attr holds.               *)
(***************************************************************************)
cmp_op == <<"<", "<=", "==", "!=", ">", ">=", "in", "not in", "is", "is not",
            "exception match", "BAD">>

NoAttr == [t |-> "none", i |-> 0, s |-> ""]
IntAttr(i) == [t |-> "int", i |-> i, s |-> ""]
StrAttr(x) == [t |-> "str", i |-> 0, s |-> x]

Token(kind, k, attr, cd, pattr, offset, sub, linestart) ==
    [kind |-> kind, k |-> k, attr |-> attr, code |-> cd, pattr |-> pattr,
     offset |-> offset, sub |-> sub, linestart |-> linestart]

\* lines 97-108: the statement walk that marks PRINT_ITEM_CONT and
\* PRINT_NEWLINE_CONT
RECURSIVE ReplaceStmts(_, _, _)
ReplaceStmts(last_stmt, i, rep) ==
    IF IsErr(i) THEN [e |-> ERR, v |-> rep]
    ELSE IF ~(i < n - 1) THEN [e |-> 0, v |-> rep]
    ELSE LET ln == LineNext(last_stmt)
             r1 == IF ln > i /\ C(last_stmt) = PRINT_ITEM
                   THEN IF C(i) = PRINT_ITEM THEN Put(rep, i, "PRINT_ITEM_CONT")
                        ELSE IF C(i) = PRINT_NEWLINE
                        THEN Put(rep, i, "PRINT_NEWLINE_CONT")
                        ELSE rep
                   ELSE rep
         IN IF IsErr(ln) \/ IsErr(C(last_stmt)) \/ IsErr(C(i))
            THEN [e |-> ERR, v |-> rep]
            ELSE ReplaceStmts(i, Rd(next_stmt, i), r1)

\* lines 110-118
RECURSIVE ReplaceImports(_, _, _, _)
ReplaceImports(imports, k, last_import, rep) ==
    IF k > Len(imports) THEN [e |-> 0, v |-> rep]
    ELSE LET i == imports[k]
             ln == LineNext(last_import)
         IN IF IsErr(ln) THEN [e |-> ERR, v |-> rep]
            ELSE ReplaceImports(imports, k + 1, i,
                     IF ln > i /\ C(last_import) = IMPORT_NAME /\ C(i) = IMPORT_NAME
                     THEN Put(rep, i, "IMPORT_NAME_CONT")
                     ELSE rep)

\* r1 is the map after the statement walk, imports the import offsets
replace_imports(r1, imports) ==
    IF r1.e # 0 THEN r1
    ELSE IF imports.e # 0 THEN [e |-> imports.e, v |-> r1.v]
    ELSE IF Len(imports.v) > 1
    THEN ReplaceImports(imports.v, 2, imports.v[1], r1.v)
    ELSE r1

replace_from(last_stmt, i) ==
    IF IsErr(last_stmt) \/ IsErr(i) THEN [e |-> ERR, v |-> EmptyMap]
    ELSE replace_imports(ReplaceStmts(last_stmt, i, EmptyMap),
                         all_instr(0, n, {IMPORT_NAME, IMPORT_FROM, IMPORT_STAR},
                                   PyNone, FALSE))

replace_map == replace_from(Rd(next_stmt, 0), Rd(next_stmt, Rd(next_stmt, 0)))

\* the COME_FROM tokens of a target numbered from the last source back
come_from_reversed(cf, offset) ==
    IF offset \in DOMAIN cf
    THEN [k \in 1..Len(cf[offset]) |->
            Token("COME_FROM", PyNone, PyNone, "",
                  IntAttr(cf[offset][Len(cf[offset]) + 1 - k]),
                  offset, k - 1, PyNone)]
    ELSE <<>>

\* the COME_FROM tokens of a target placed at the offsets of their sources
come_from_at_source(cf, offset) ==
    IF offset \in DOMAIN cf
    THEN [k \in 1..Len(cf[offset]) |->
            Token("COME_FROM", PyNone, PyNone, "", IntAttr(cf[offset][k]),
                  cf[offset][k], k - 1, PyNone)]
    ELSE <<>>

\* lines 122-127: the COME_FROM tokens of one offset
come_from_tokens(cf, offset) ==
    IF offset \in DOMAIN cf
    THEN [k \in 1..Len(cf[offset]) |->
            Token("COME_FROM", PyNone, PyNone, "", IntAttr(cf[offset][k]),
                  offset, k - 1, PyNone)]
    ELSE <<>>

\* the name of a JUMP_ABSOLUTE token when not_continue is not consulted
ja_opname_any_stmt(offset) ==
    IF IsErr(get_target(offset)) THEN [e |-> ERR, v |-> ""]
    ELSE IF get_target(offset) < offset /\ offset \in stmts /\ IsErr(Rd(code, offset + 3))
    THEN [e |-> ERR, v |-> ""]
    ELSE [e |-> 0,
          v |-> IF get_target(offset) < offset
                THEN IF offset \in stmts
                        /\ Rd(code, offset + 3) \notin {END_FINALLY, POP_BLOCK}
                     THEN "CONTINUE"
                     ELSE "JUMP_BACK"
                ELSE opname(JA)]

\* lines 184-193: the name of a JUMP_ABSOLUTE token
ja_opname(offset) ==
    LET target == get_target(offset)
        back == target < offset /\ offset \in stmts
    IN IF IsErr(target) THEN [e |-> ERR, v |-> ""]
       ELSE IF back /\ IsErr(C(offset + 3)) THEN [e |-> ERR, v |-> ""]
       ELSE [e |-> 0,
             v |-> IF target < offset
                   THEN IF offset \in stmts
                           /\ C(offset + 3) \notin {END_FINALLY, POP_BLOCK}
                           /\ offset \notin not_continue
                        THEN "CONTINUE"
                        ELSE "JUMP_BACK"
                   ELSE opname(JA)]

\* lines 139-171: [e, attr code, pattr, kind] for an instruction with an
\* argument; pool is the list the argument indexes
pool_attr(pool, oparg) ==
    IF InIdx(pool, oparg) THEN StrAttr(Rd(pool, oparg)) ELSE NoAttr

const_kind(name, kind) ==
    IF name = "<lambda>" THEN "LOAD_LAMBDA"
    ELSE IF name = "<genexpr>" THEN "LOAD_GENEXPR"
    ELSE IF name = "<dictcomp>" THEN "LOAD_DICTCOMP"
    ELSE IF name = "<setcomp>" THEN "LOAD_SETCOMP"
    ELSE kind

resolve(op, offset, oparg) ==
    LET plain(pa) == [e |-> 0, code |-> "", pattr |-> pa, kind |-> opname(op)]
        bad == [e |-> ERR, code |-> "", pattr |-> NoAttr, kind |-> opname(op)]
        pooled(pool) == IF InIdx(pool, oparg) THEN plain(pool_attr(pool, oparg)) ELSE bad
    IN IF op \in hasconst
       THEN IF ~InIdx(co.co_consts, oparg) THEN bad
            ELSE LET const == Rd(co.co_consts, oparg)
                 IN IF const.iscode
                    THEN IF const.co_name = "<lambda>" /\ opname(op) # "LOAD_CONST"
                         THEN [bad EXCEPT !.e = AERR]
                         ELSE [e |-> 0, code |-> const.co_name,
                               pattr |-> StrAttr("<code_object " \o const.co_name \o ">"),
                               kind |-> const_kind(const.co_name, opname(op))]
                    ELSE plain(StrAttr(const.co_name))
       ELSE IF op \in hasname THEN pooled(co.co_names)
       ELSE IF op \in hasjrel THEN plain(IntAttr(offset + 3 + oparg))
       ELSE IF op \in hasjabs THEN plain(IntAttr(oparg))
       ELSE IF op \in haslocal THEN pooled(co.co_varnames)
       ELSE IF op \in hascompare THEN pooled(cmp_op)
       ELSE IF op \in hasfree THEN pooled(co.co_free)
       ELSE plain(NoAttr)

\* lines 173-183: whether a varargs instruction is dropped
elided(op, offset) == op = BUILD_TUPLE /\ C(P(offset)) = LOAD_CLOSURE

\* customize recording every varargs name, BUILD_SLICE included
customize_put_all(cz, op, kind, oparg) == Put(cz, <<kind, oparg>>, oparg)

\* lines 181-183: customize after a varargs token named kind_oparg
customize_put(cz, op, kind, oparg) ==
    IF op # BUILD_SLICE THEN Put(cz, <<kind, oparg>>, oparg) ELSE cz

\* the emission loop (lines 120-212) from element k of op_range(0, n) on
\* lines 96-118: the replace map, built once find_jump_targets returned
Replace ==
    /\ pc = "replace"
    /\ \E rep \in {replace_map} :
          IF rep.e # 0
          THEN Fail(ErrName(rep.e)) /\ UNCHANGED <<replace, cursor>>
          ELSE /\ replace' = rep.v
               /\ cursor' = 0
               /\ pc' = "emit"
               /\ err' = err
    /\ UNCHANGED <<earlier, chosen, co, code, n, lines, linestartoffsets, prev, load_asserts,
                   stmts, next_stmt, structs, loops, fixed_jumps, ignore_if,
                   not_continue, return_end_ifs, targets, tokens, customize,
                   extended_arg>>

\* one iteration of the emission loop (lines 120-212) at offset cursor of
\* op_range(0, n); the token list is returned only when the loop ends, so a
\* failure leaves no tokens
Emit ==
    /\ pc = "emit"
    /\ \E op \in {C(cursor)} :
       \E arg \in {IF op >= HAVE_ARGUMENT THEN get_argument(cursor) ELSE PyNone} :
       \E oparg \in {IF op >= HAVE_ARGUMENT THEN arg + extended_arg ELSE PyNone} :
       \E r \in {IF op >= HAVE_ARGUMENT THEN resolve(op, cursor, oparg)
                 ELSE [e |-> 0, code |-> "", pattr |-> NoAttr, kind |-> opname(op)]} :
       \E ja \in {IF op = JA /\ op \notin varargs_ops THEN ja_opname(cursor)
                  ELSE [e |-> 0, v |-> ""]} :
       \E kind \in {IF op \in varargs_ops THEN r.kind
                    ELSE IF op = JA THEN ja.v
                    ELSE IF op = LOAD_GLOBAL /\ cursor \in load_asserts
                    THEN "LOAD_ASSERT"
                    ELSE IF op = RETURN_VALUE /\ cursor \in return_end_ifs
                    THEN "RETURN_END_IF"
                    ELSE r.kind} :
       LET offset == cursor
           t1 == tokens \o come_from_tokens(targets, offset)
           hasarg == op >= HAVE_ARGUMENT
           isva == op \in varargs_ops
           linestart == IF offset \in DOMAIN linestartoffsets
                        THEN linestartoffsets[offset] ELSE PyNone
           name == IF offset \in DOMAIN replace THEN replace[offset] ELSE kind
           tok == Token(name, IF isva THEN oparg ELSE PyNone, oparg, r.code,
                        r.pattr, offset, PyNone, linestart)
           e == IF hasarg /\ IsErr(arg) THEN ERR
                ELSE IF op = EXTENDED_ARG THEN 0
                ELSE IF r.e # 0 THEN r.e
                ELSE IF isva /\ op = BUILD_TUPLE /\ IsErr(C(P(offset))) THEN ERR
                ELSE ja.e
           skip == op = EXTENDED_ARG \/ (isva /\ elided(op, offset))
           nxt == offset + op_size(op)
       IN IF e # 0
          THEN /\ Fail(ErrName(e))
               /\ tokens' = <<>>
               /\ customize' = EmptyMap
               /\ UNCHANGED <<cursor, extended_arg>>
          ELSE /\ tokens' = IF skip THEN t1 ELSE Append(t1, tok)
               /\ customize' = IF isva /\ ~skip
                               THEN customize_put(customize, op, r.kind, oparg)
                               ELSE customize
               /\ extended_arg' = IF op = EXTENDED_ARG THEN oparg * L65536
                                  ELSE IF hasarg THEN 0 ELSE extended_arg
               /\ cursor' = nxt
               /\ pc' = IF nxt < n THEN "emit" ELSE "done"
               /\ err' = err
    /\ UNCHANGED <<earlier, chosen, co, code, n, lines, linestartoffsets, prev, load_asserts,
                   stmts, next_stmt, structs, loops, fixed_jumps, ignore_if,
                   not_continue, return_end_ifs, targets, replace>>

(***************************************************************************)
(* Bounds of the inputs.                                                   *)
(***************************************************************************)
MaxArg == 41      \* arguments an instruction of the corpus is given
MaxProg == 18     \* instructions of a corpus program that are replaced
MaxInstr == 2     \* instructions of a generated program before its return
MaxBytes == 5     \* bytes of a generated byte array
MaxLines == 3     \* entries of a generated line-number program
MaxLineNo == 3    \* source line numbers of a generated line-number program

\* opcodes an instruction of the corpus is replaced by
Ops1 == {POP_TOP, DUP_TOP, POP_BLOCK, END_FINALLY, RETURN_VALUE, PRINT_ITEM,
         PRINT_NEWLINE, GET_ITER}
Ops3 == {STORE_NAME, FOR_ITER, LOAD_CONST, BUILD_TUPLE, IMPORT_NAME, JF,
         JUMP_IF_FALSE_OR_POP, JUMP_IF_TRUE_OR_POP, JA, PJIF, PJIT, LOAD_GLOBAL,
         SETUP_LOOP, SETUP_EXCEPT, SETUP_FINALLY, CALL_FUNCTION, LOAD_CLOSURE,
         EXTENDED_ARG}

(***************************************************************************)
(* Code objects.  A program is a sequence of instructions <<op, arg>>, arg *)
(* being NoArg for a one-byte instruction; Assemble lays it out as bytes.  *)
(***************************************************************************)
NoArg == PyNone
I1(op) == <<op, NoArg>>
I3(op, arg) == <<op, arg>>

Encode(ins) ==
    IF ins[2] = NoArg THEN <<ins[1]>>
    ELSE <<ins[1], ins[2] % 256, (ins[2] \div 256) % 256>>

RECURSIVE Assemble(_)
Assemble(prog) ==
    IF prog = <<>> THEN <<>> ELSE Encode(prog[1]) \o Assemble(Tail(prog))

Const(x) == [iscode |-> FALSE, co_name |-> x]
CodeConst(x) == [iscode |-> TRUE, co_name |-> x]

Names == <<"x", "AssertionError", "y">>
Consts == <<Const("1"), CodeConst("<lambda>"), Const("None")>>

CodeBytes(bytes, linestarts) ==
    [co_code |-> bytes, linestarts |-> linestarts, co_names |-> Names,
     co_consts |-> Consts, co_varnames |-> <<"a">>, co_free |-> <<"a">>]

CodeObject(prog, linestarts) == CodeBytes(Assemble(prog), linestarts)

\* src/test/simple_source/exception/25_try_except.py compiled by Python 2.7
TryExcept ==
    <<I3(SETUP_FINALLY, 70), I3(SETUP_EXCEPT, 40), I3(SETUP_EXCEPT, 10),
      I3(LOAD_CONST, 0), I3(STORE_NAME, 0), I1(POP_BLOCK), I3(JF, 23),
      I1(DUP_TOP), I3(101, 1), I3(107, 10), I3(PJIF, 41),
      I1(POP_TOP), I1(POP_TOP), I1(POP_TOP),
      I3(LOAD_CONST, 0), I3(STORE_NAME, 0), I3(JF, 1), I1(END_FINALLY),
      I1(POP_BLOCK), I3(JF, 23),
      I1(DUP_TOP), I3(101, 2), I3(107, 10), I3(PJIF, 68),
      I1(POP_TOP), I1(POP_TOP), I1(POP_TOP),
      I3(LOAD_CONST, 0), I3(STORE_NAME, 0), I3(JF, 1), I1(END_FINALLY),
      I1(POP_BLOCK), I3(LOAD_CONST, 2),
      I3(LOAD_CONST, 0), I3(STORE_NAME, 0), I1(END_FINALLY),
      I3(LOAD_CONST, 2), I1(RETURN_VALUE)>>
TryExceptLines ==
    <<<<0, 12>>, <<6, 13>>, <<9, 14>>, <<19, 15>>, <<32, 16>>, <<46, 18>>,
      <<59, 19>>, <<73, 21>>>>

\* try: x = 1 / except AssertionError: x = 1
TryOne ==
    <<I3(SETUP_EXCEPT, 10), I3(LOAD_CONST, 0), I3(STORE_NAME, 0), I1(POP_BLOCK),
      I3(JF, 23), I1(DUP_TOP), I3(101, 1), I3(107, 10), I3(PJIF, 35),
      I1(POP_TOP), I1(POP_TOP), I1(POP_TOP), I3(LOAD_CONST, 0),
      I3(STORE_NAME, 0), I3(JF, 1), I1(END_FINALLY), I3(LOAD_CONST, 2),
      I1(RETURN_VALUE)>>
TryOneLines == <<<<0, 1>>, <<3, 2>>, <<13, 3>>, <<26, 4>>>>

\* while x: y = 1 / else: y = 1
WhileElse ==
    <<I3(SETUP_LOOP, 22), I3(101, 0), I3(PJIF, 18), I3(LOAD_CONST, 0),
      I3(STORE_NAME, 2), I3(JA, 3), I1(POP_BLOCK), I3(LOAD_CONST, 0),
      I3(STORE_NAME, 2), I3(LOAD_CONST, 2), I1(RETURN_VALUE)>>
WhileElseLines == <<<<0, 1>>, <<9, 2>>, <<19, 4>>>>

\* for y in x: / if y: continue / y = 1
ForContinue ==
    <<I3(SETUP_LOOP, 32), I3(101, 0), I1(GET_ITER), I3(FOR_ITER, 24),
      I3(STORE_NAME, 2), I3(101, 2), I3(PJIF, 25), I3(JA, 7),
      I3(JF, 0), I3(LOAD_CONST, 0), I3(STORE_NAME, 2), I3(JA, 7),
      I1(POP_BLOCK), I3(LOAD_CONST, 2), I1(RETURN_VALUE)>>
ForContinueLines == <<<<0, 1>>, <<13, 2>>, <<19, 3>>, <<25, 4>>>>

\* assert x, 1
AssertMsg ==
    <<I3(101, 0), I3(PJIT, 18), I3(LOAD_GLOBAL, 1), I3(LOAD_CONST, 0),
      I3(CALL_FUNCTION, 1), I3(RAISE_VARARGS, 1), I3(LOAD_CONST, 2),
      I1(RETURN_VALUE)>>
AssertMsgLines == <<<<0, 1>>>>

\* if x and y: x = 1
IfAnd ==
    <<I3(101, 0), I3(PJIF, 21), I3(101, 2), I3(PJIF, 21),
      I3(LOAD_CONST, 0), I3(STORE_NAME, 0), I3(JF, 0),
      I3(LOAD_CONST, 2), I1(RETURN_VALUE)>>
IfAndLines == <<<<0, 1>>, <<12, 2>>>>

\* def f(a): return lambda: a
Closure ==
    <<I3(LOAD_CLOSURE, 0), I3(BUILD_TUPLE, 1), I3(LOAD_CONST, 1),
      I3(134, 0), I1(RETURN_VALUE)>>
ClosureLines == <<<<0, 2>>>>

\* x = y(x)[1:1:1]
SliceCall ==
    <<I3(101, 2), I3(101, 0), I3(CALL_FUNCTION, 1), I3(LOAD_CONST, 0),
      I3(LOAD_CONST, 0), I3(LOAD_CONST, 0), I3(BUILD_SLICE, 3), I1(25),
      I3(STORE_NAME, 0), I3(LOAD_CONST, 2), I1(RETURN_VALUE)>>
SliceCallLines == <<<<0, 1>>>>

\* a handler test that jumps back over the jump in front of the try block
HandlerJumpsBack ==
    <<I3(JF, 0), I3(SETUP_EXCEPT, 0), I1(DUP_TOP), I3(PJIF, 2), I1(RETURN_VALUE)>>
HandlerJumpsBackLines == <<<<0, 1>>>>

\* while x: return 1
WhileReturn ==
    <<I3(SETUP_LOOP, 11), I3(101, 0), I3(PJIF, 13), I3(LOAD_CONST, 0),
      I1(RETURN_VALUE), I1(POP_BLOCK), I3(LOAD_CONST, 2), I1(RETURN_VALUE)>>
WhileReturnLines == <<<<0, 1>>, <<9, 2>>>>

\* def f(a): / if a or AssertionError: return 1
IfOrAssertionError ==
    <<I3(124, 0), I3(PJIT, 12), I3(LOAD_GLOBAL, 1), I3(PJIF, 16),
      I3(LOAD_CONST, 0), I1(RETURN_VALUE), I3(LOAD_CONST, 2), I1(RETURN_VALUE)>>
IfOrAssertionErrorLines == <<<<0, 2>>>>

Programs ==
    {<<TryExcept, TryExceptLines>>, <<TryOne, TryOneLines>>, <<WhileElse, WhileElseLines>>,
     <<ForContinue, ForContinueLines>>, <<AssertMsg, AssertMsgLines>>,
     <<IfAnd, IfAndLines>>, <<Closure, ClosureLines>>,
     <<SliceCall, SliceCallLines>>,
     <<HandlerJumpsBack, HandlerJumpsBackLines>>,
     <<WhileReturn, WhileReturnLines>>,
     <<IfOrAssertionError, IfOrAssertionErrorLines>>}

Corpus == {CodeObject(p[1], p[2]) : p \in Programs}

\* the corpus with one instruction's argument replaced by any of 0..MaxArg
ArgMutants ==
    {CodeObject([p[1] EXCEPT ![j] = <<p[1][j][1], a>>], p[2]) :
        <<p, j, a>> \in {<<q, k, b>> \in Programs \X (1..MaxProg) \X (0..MaxArg) :
                            k <= Len(q[1]) /\ q[1][k][2] # NoArg}}

\* the corpus with one instruction's opcode replaced by one of the same size
OpMutants ==
    {CodeObject([p[1] EXCEPT ![j] = <<o, p[1][j][2]>>], p[2]) :
        <<p, j, o>> \in {<<q, k, b>> \in Programs \X (1..MaxProg) \X (Ops1 \cup Ops3) :
                            k <= Len(q[1]) /\ ((q[1][k][2] = NoArg) <=> (b \in Ops1))}}

InitWith(inputs) ==
    /\ co \in inputs
    /\ pc = "setup_code"
    /\ err = ""
    /\ code = <<>>
    /\ n = 0
    /\ lines = <<>>
    /\ linestartoffsets = EmptyMap
    /\ prev = <<>>
    /\ load_asserts = {}
    /\ stmts = {}
    /\ next_stmt = <<>>
    /\ structs = <<>>
    /\ loops = <<>>
    /\ fixed_jumps = EmptyMap
    /\ ignore_if = {}
    /\ not_continue = {}
    /\ return_end_ifs = {}
    /\ targets = EmptyMap
    /\ cursor = 0
    /\ tokens = <<>>
    /\ customize = EmptyMap
    /\ replace = EmptyMap
    /\ extended_arg = 0
    /\ earlier = <<>>
    /\ chosen = NoStruct

Next ==
    \/ SetupCode
    \/ BuildLinesData
    \/ BuildPrevOp
    \/ LoadAsserts
    \/ FindJumpTargetsInit
    \/ FindStep
    \/ Replace
    \/ Emit

\* every program of at most MaxInstr instructions over Letters, then a return
Letters ==
    {I1(o) : o \in {POP_TOP, DUP_TOP, POP_BLOCK, END_FINALLY}}
    \cup {I3(o, a) : o \in {JF, JA, PJIF, SETUP_LOOP, SETUP_EXCEPT, CALL_FUNCTION},
                     a \in {0, 3, 4}}

SmallPrograms ==
    {CodeObject(p \o <<I1(RETURN_VALUE)>>, <<<<0, 1>>>>) :
        p \in UNION {[1..k -> Letters] : k \in 0..MaxInstr}}

\* every byte array of at most MaxBytes bytes over Bytes
Bytes == {0, POP_TOP, RETURN_VALUE, END_FINALLY, LOAD_CONST}

ByteArrays ==
    {CodeBytes(b, <<<<0, 1>>>>) : b \in UNION {[1..k -> Bytes] : k \in 1..MaxBytes}}

\* a fixed program under every line-number program of at most MaxLines
\* entries: the first at offset 0, the others at later instructions in
\* increasing order, each with a line number of 1..MaxLineNo other than
\* the one before it
LinesProgram ==
    <<I3(LOAD_CONST, 0), I3(STORE_NAME, 0), I3(LOAD_CONST, 0), I3(STORE_NAME, 2),
      I3(LOAD_CONST, 2), I1(RETURN_VALUE)>>

LineStarts ==
    {ls \in UNION {[1..k -> {0, 3, 6, 9, 12, 15} \X (1..MaxLineNo)] : k \in 1..MaxLines} :
        /\ ls[1][1] = 0
        /\ \A i \in 1..(Len(ls) - 1) : ls[i][1] < ls[i + 1][1] /\ ls[i][2] # ls[i + 1][2]}

LinePrograms == {CodeObject(LinesProgram, ls) : ls \in LineStarts}

Init == InitWith(Corpus \cup ArgMutants \cup OpMutants \cup SmallPrograms)
Spec == Init /\ [][Next]_vars

InitTrunc == InitWith(ByteArrays)
SpecTrunc == InitTrunc /\ [][Next]_vars

InitLines == InitWith(LinePrograms)
SpecLines == InitLines /\ [][Next]_vars

(***************************************************************************)
(* Several disassemble calls on one scanner.                               *)
(***************************************************************************)
MaxCalls == 3     \* disassemble calls on one scanner

\* `assert x, 1` with the target of its test past the end of the code
AssertPastEnd == [AssertMsg EXCEPT ![2] = I3(PJIT, 23)]

\* a loop without a body
EmptyLoop == <<I3(SETUP_LOOP, 0), I1(RETURN_VALUE)>>

\* five programs of the corpus that between them fill every map of the
\* scanner, two programs detect_structure fails on and a byte array
\* setup_code fails on
ReuseInputs ==
    {CodeObject(TryOne, TryOneLines), CodeObject(ForContinue, ForContinueLines),
     CodeObject(AssertMsg, AssertMsgLines), CodeObject(WhileReturn, WhileReturnLines),
     CodeObject(IfOrAssertionError, IfOrAssertionErrorLines),
     CodeObject(AssertPastEnd, AssertMsgLines),
     CodeObject(EmptyLoop, <<<<0, 1>>>>),
     CodeBytes(<<POP_TOP>>, <<<<0, 1>>>>)}

\* what a finished call leaves: its result, and once it returned the maps
\* of the scanner
Outcome ==
    [co |-> co, pc |-> pc, err |-> err, tokens |-> tokens, customize |-> customize,
     self |-> IF pc = "done"
              THEN <<code, lines, linestartoffsets, prev, load_asserts, stmts,
                     next_stmt, structs, loops, fixed_jumps, ignore_if,
                     not_continue, return_end_ifs>>
              ELSE <<>>]

\* the next call of disassemble on the same scanner, after a call that
\* returned or raised: tokens, customize and the other locals are new
\* (lines 61-63), the attributes of the scanner are as the call left them
Call ==
    /\ pc \in {"done", "failed"}
    /\ Len(earlier) < MaxCalls - 1
    /\ earlier' = Append(earlier, Outcome)
    /\ co' \in ReuseInputs
    /\ pc' = "setup_code"
    /\ err' = ""
    /\ n' = 0
    /\ targets' = EmptyMap
    /\ cursor' = 0
    /\ tokens' = <<>>
    /\ customize' = EmptyMap
    /\ replace' = EmptyMap
    /\ extended_arg' = 0
    /\ chosen' = NoStruct
    /\ UNCHANGED <<code, lines, linestartoffsets, prev, load_asserts, stmts,
                   next_stmt, structs, loops, fixed_jumps, ignore_if,
                   not_continue, return_end_ifs>>

NextReuse ==
    \/ SetupCode
    \/ BuildLinesData
    \/ BuildPrevOp
    \/ LoadAsserts
    \/ FindJumpTargetsInit
    \/ FindStep
    \/ Replace
    \/ Emit
    \/ Call

InitReuse == InitWith(ReuseInputs)
SpecReuse == InitReuse /\ [][NextReuse]_vars

(***************************************************************************)
(* The parent lookup of detect_structure (lines 393-403) alone, over any   *)
(* structs list that starts with root and any pos.                         *)
(***************************************************************************)
MaxStructs == 2
MaxEnd == 4

ParentTypes == {"if-then", "and/or"}

\* the structs a list may hold after root: any type, any start < end
StructChoices ==
    {Struct(x[1], x[2], x[3]) :
        x \in {y \in ParentTypes \X (0..MaxEnd) \X (0..MaxEnd) : y[2] < y[3]}}

\* root first (find_jump_targets line 667), then at most MaxStructs structs
StructLists ==
    {<<Struct("root", 0, MaxEnd - 1)>> \o l :
        l \in UNION {[1..k -> StructChoices] : k \in 0..MaxStructs}}

InitParent ==
    /\ pc = "parent"
    /\ structs \in StructLists
    /\ cursor \in 0..(MaxEnd - 1)
    /\ code = [k \in 1..MaxEnd |-> POP_TOP]
    /\ co = CodeBytes(code, <<<<0, 1>>>>)
    /\ n = MaxEnd
    /\ err = ""
    /\ lines = <<>>
    /\ linestartoffsets = EmptyMap
    /\ prev = <<>>
    /\ load_asserts = {}
    /\ stmts = {}
    /\ next_stmt = <<>>
    /\ loops = <<>>
    /\ fixed_jumps = EmptyMap
    /\ ignore_if = {}
    /\ not_continue = {}
    /\ return_end_ifs = {}
    /\ targets = EmptyMap
    /\ tokens = <<>>
    /\ customize = EmptyMap
    /\ replace = EmptyMap
    /\ extended_arg = 0
    /\ earlier = <<>>
    /\ chosen = NoStruct

ParentLookup ==
    /\ pc = "parent"
    /\ chosen' = find_parent(structs, cursor)
    /\ pc' = "looked_up"
    /\ UNCHANGED emitvars
    /\ UNCHANGED <<err, earlier, co, code, n, lines, linestartoffsets, prev,
                   load_asserts, stmts, next_stmt, structs, loops, fixed_jumps,
                   ignore_if, not_continue, return_end_ifs, targets, cursor,
                   tokens, customize>>

NextParent == ParentLookup

SpecParent == InitParent /\ [][NextParent]_vars

(***************************************************************************)
(* Properties of the token list and of the jump analysis.                  *)
(***************************************************************************)
Done == pc = "done"

\* find_jump_targets has returned
Returned == pc \in {"replace", "emit", "done"}

Offsets == SeqToSet(op_range(0, n))

IsComeFrom(tk) == tk.sub # PyNone
ComeFromAt(t) == {p \in DOMAIN tokens : IsComeFrom(tokens[p]) /\ tokens[p].offset = t}
RealAt(t) == {p \in DOMAIN tokens : ~IsComeFrom(tokens[p]) /\ tokens[p].offset = t}

\* tokens p .. p+k-1 are the COME_FROM tokens t_0 .. t_(k-1) of targets[t],
\* one per source in collection order
ComeFromRun(t, p) ==
    /\ p >= 1
    /\ p + Len(targets[t]) - 1 <= Len(tokens)
    /\ \A j \in 1..Len(targets[t]) :
          /\ IsComeFrom(tokens[p + j - 1])
          /\ tokens[p + j - 1].kind = "COME_FROM"
          /\ tokens[p + j - 1].offset = t
          /\ tokens[p + j - 1].sub = j - 1
          /\ tokens[p + j - 1].pattr = IntAttr(targets[t][j])

\* exactly |targets[t]| COME_FROM tokens of t, immediately followed by the
\* real token at offset t
Covered(t) ==
    /\ Cardinality(ComeFromAt(t)) = Len(targets[t])
    /\ \E p \in RealAt(t) : ComeFromRun(t, p - Len(targets[t]))

\* exactly |targets[t]| COME_FROM tokens of t, immediately followed by the
\* next emitted real token, whose offset is beyond t
CoveredByNext(t) ==
    /\ Cardinality(ComeFromAt(t)) = Len(targets[t])
    /\ \E p \in DOMAIN tokens :
          /\ ~IsComeFrom(tokens[p])
          /\ tokens[p].offset > t
          /\ \A q \in DOMAIN tokens :
                (~IsComeFrom(tokens[q]) /\ tokens[q].offset > t) => p <= q
          /\ \E c \in 1..p : /\ ComeFromRun(t, c)
                             /\ \A q \in (c + Len(targets[t]))..(p - 1) :
                                   IsComeFrom(tokens[q])

\* C1 (as claimed): for every key t of targets the token list holds exactly
\* |targets[t]| COME_FROM tokens t_0 .. t_(k-1), in collection order,
\* immediately followed by the real token at offset t; for every t, t = N
\* and the offsets of elided instructions included
TargetCoverageEveryKey ==
    Done => \A t \in DOMAIN targets : Covered(t)

\* C1 (amended): for every key t of targets that is the offset of an emitted
\* real token, exactly |targets[t]| COME_FROM tokens t_0 .. t_(k-1), naming
\* the sources in collection order, immediately precede that token; a key
\* that is the offset of an elided instruction has its COME_FROM tokens
\* before the next emitted real token; a key that is no instruction offset
\* of [0, N) has no COME_FROM token; and every COME_FROM token belongs to a
\* key of targets
TargetCoverage ==
    Done =>
      /\ \A t \in DOMAIN targets :
            IF RealAt(t) # {} THEN Covered(t)
            ELSE IF t \in Offsets THEN CoveredByNext(t)
            ELSE ComeFromAt(t) = {}
      /\ \A p \in DOMAIN tokens :
            IsComeFrom(tokens[p]) => tokens[p].offset \in DOMAIN targets

\* a target with two sources whose real token is emitted
TargetCoverageWitness ==
    /\ Done
    /\ \E t \in DOMAIN targets : Len(targets[t]) >= 2 /\ RealAt(t) # {}

\* a target at the offset of an elided instruction
TargetElidedReached ==
    /\ Done
    /\ \E t \in DOMAIN targets : RealAt(t) = {} /\ t \in Offsets

\* C2: the offsets of the real tokens are strictly increasing, and every
\* COME_FROM token t_k comes after every real token with offset < t and
\* before the real token with offset >= t, so the offsets, a COME_FROM
\* compared by its integer prefix, never decrease
OffsetMonotonicity ==
    /\ \A p, q \in DOMAIN tokens :
          (p < q /\ ~IsComeFrom(tokens[p]) /\ ~IsComeFrom(tokens[q]))
             => tokens[p].offset < tokens[q].offset
    /\ \A p, q \in DOMAIN tokens :
          (IsComeFrom(tokens[p]) /\ ~IsComeFrom(tokens[q]))
             => /\ tokens[q].offset < tokens[p].offset => q < p
                /\ tokens[q].offset >= tokens[p].offset => p < q
    /\ \A p, q \in DOMAIN tokens : p < q => tokens[p].offset <= tokens[q].offset

\* a finished token list with COME_FROM tokens of two targets among the
\* real tokens
OffsetMonotonicityWitness ==
    /\ Done
    /\ \E p, q \in DOMAIN tokens :
          /\ IsComeFrom(tokens[p]) /\ IsComeFrom(tokens[q])
          /\ tokens[p].offset < tokens[q].offset
    /\ \E p \in DOMAIN tokens : ~IsComeFrom(tokens[p]) /\ tokens[p].offset > 0

\* the target the instruction at src jumps to when fixed_jumps has no entry
NaturalTarget(src) == get_target(src)

\* C3: when find_jump_targets has returned, for every tgt and every src of
\* targets[tgt], tgt is fixed_jumps[src] if src is a key of the final
\* fixed_jumps and the natural target of src otherwise; no src whose final
\* fixed_jumps value is -1 is in targets
TargetsConsistent ==
    Returned =>
      \A tgt \in DOMAIN targets : \A k \in DOMAIN targets[tgt] :
         IF targets[tgt][k] \in DOMAIN fixed_jumps
         THEN /\ fixed_jumps[targets[tgt][k]] = tgt
              /\ fixed_jumps[targets[tgt][k]] # -1
         ELSE tgt = NaturalTarget(targets[tgt][k])

Interval(s) == (s.start)..(s.end - 1)

\* C4: after find_jump_targets, the intervals [start, end) of any two
\* structs are disjoint or one contains the other, and every struct lies
\* within the root struct [0, N-1)
StructTree ==
    Returned =>
      /\ \A a, b \in DOMAIN structs :
            \/ Interval(structs[a]) \cap Interval(structs[b]) = {}
            \/ Interval(structs[a]) \subseteq Interval(structs[b])
            \/ Interval(structs[b]) \subseteq Interval(structs[a])
      /\ \A a \in DOMAIN structs : Interval(structs[a]) \subseteq 0..(n - 2)

\* the COME_FROM token of source j at offset t, after the token of j
ComeFromNames(j, t) ==
    \E p \in ComeFromAt(t) :
       /\ tokens[p].pattr = IntAttr(j)
       /\ \A q \in RealAt(j) : q < p

JumpForwards == {j \in Offsets : C(j) = JF}

\* C5 (as claimed): every JUMP_FORWARD at offset j is in targets as a source
\* of its landing offset, and a COME_FROM token naming j is emitted at that
\* offset after the jump; the JUMP_FORWARD that ends an except handler
\* included
EveryJumpForwardLands ==
    Done =>
      \A j \in JumpForwards :
         /\ NaturalTarget(j) \in DOMAIN targets
         /\ j \in SeqToSet(targets[NaturalTarget(j)])
         /\ ComeFromNames(j, NaturalTarget(j))

\* C5 (amended): every JUMP_FORWARD at offset j that has no fixed_jumps
\* entry is in targets as a source of its landing offset, and when that
\* offset is an instruction offset of [0, N) a COME_FROM token naming j is
\* emitted there, after the jump; a JUMP_FORWARD whose fixed_jumps entry is
\* -1 when the pass reaches it, as is the one that ends an except handler,
\* is added to no target
JumpForwardLands ==
    /\ [](Done =>
            \A j \in JumpForwards :
               j \notin DOMAIN fixed_jumps =>
                  /\ NaturalTarget(j) \in DOMAIN targets
                  /\ j \in SeqToSet(targets[NaturalTarget(j)])
                  /\ NaturalTarget(j) \in Offsets => ComeFromNames(j, NaturalTarget(j)))
    /\ [][(/\ pc = "detect"
           /\ C(cursor) = JF
           /\ cursor \in DOMAIN fixed_jumps'
           /\ fixed_jumps'[cursor] = -1) => targets' = targets]_vars

\* the jump that ends an except handler has left no COME_FROM token, while
\* another JUMP_FORWARD has
JumpForwardLandsWitness ==
    /\ Done
    /\ \E j \in JumpForwards :
          /\ j \in DOMAIN fixed_jumps
          /\ fixed_jumps[j] = -1
          /\ \A t \in DOMAIN targets : j \notin SeqToSet(targets[t])
    /\ \E j \in JumpForwards :
          /\ j \notin DOMAIN fixed_jumps
          /\ ComeFromNames(j, NaturalTarget(j))

\* the name the claim gives the JUMP_ABSOLUTE at offset o
JumpAbsoluteName(o) ==
    IF get_target(o) < o
    THEN IF /\ o \in stmts
            /\ C(o + 3) \notin {END_FINALLY, POP_BLOCK}
            /\ o \notin not_continue
         THEN "CONTINUE"
         ELSE "JUMP_BACK"
    ELSE "JUMP_ABSOLUTE"

\* C6: the token of a JUMP_ABSOLUTE at offset o with a backward target is
\* CONTINUE exactly when o is in stmts, the opcode at o+3 is neither
\* END_FINALLY nor POP_BLOCK and o is not in not_continue, and JUMP_BACK
\* otherwise; with a target that is not backward it is JUMP_ABSOLUTE
JumpAbsoluteKind ==
    Done =>
      \A o \in Offsets :
         C(o) = JA =>
            /\ RealAt(o) # {}
            /\ \A p \in RealAt(o) : tokens[p].kind = JumpAbsoluteName(o)

\* a token list with a CONTINUE and a JUMP_BACK
JumpAbsoluteKindWitness ==
    /\ Done
    /\ \E p \in DOMAIN tokens : tokens[p].kind = "CONTINUE"
    /\ \E p \in DOMAIN tokens : tokens[p].kind = "JUMP_BACK"

\* a JUMP_BACK that not_continue alone keeps from being a CONTINUE
NotContinueReached ==
    /\ Done
    /\ \E p \in DOMAIN tokens :
          /\ tokens[p].kind = "JUMP_BACK"
          /\ tokens[p].offset \in stmts
          /\ tokens[p].offset \in not_continue
          /\ C(tokens[p].offset + 3) \notin {END_FINALLY, POP_BLOCK}

\* the argument of the instruction at offset o, the EXTENDED_ARG in front of
\* it included
RECURSIVE FullArgument(_)
FullArgument(o) ==
    get_argument(o)
    + (IF o > 0 /\ C(P(o)) = EXTENDED_ARG THEN FullArgument(P(o)) * L65536 ELSE 0)

VarargsOffsets == {o \in Offsets : C(o) \in varargs_ops}
Elided(o) == C(o) = BUILD_TUPLE /\ C(P(o)) = LOAD_CLOSURE

\* C7: the token of a varargs instruction has the kind X_k with k the
\* argument of the instruction; customize[X_k] = k for each of them but
\* BUILD_SLICE_k; customize has no BUILD_SLICE key, no key for a BUILD_TUPLE
\* elided after LOAD_CLOSURE, and no key that is not the kind of an emitted
\* token
CustomizeAgreement ==
    Done =>
      /\ \A o \in VarargsOffsets :
            IF Elided(o) THEN RealAt(o) = {}
            ELSE /\ RealAt(o) # {}
                 /\ \A p \in RealAt(o) :
                       /\ tokens[p].kind = opname(C(o))
                       /\ tokens[p].k = FullArgument(o)
                       /\ C(o) # BUILD_SLICE =>
                             /\ <<tokens[p].kind, tokens[p].k>> \in DOMAIN customize
                             /\ customize[<<tokens[p].kind, tokens[p].k>>] = tokens[p].k
      /\ \A key \in DOMAIN customize :
            /\ key[1] # opname(BUILD_SLICE)
            /\ \E p \in DOMAIN tokens :
                  /\ ~IsComeFrom(tokens[p])
                  /\ tokens[p].offset \in VarargsOffsets
                  /\ tokens[p].kind = key[1]
                  /\ tokens[p].k = key[2]

\* a token list with a BUILD_SLICE token, a recorded varargs token and an
\* elided BUILD_TUPLE
CustomizeAgreementWitness ==
    /\ Done
    /\ \E o \in VarargsOffsets : C(o) = BUILD_SLICE /\ RealAt(o) # {}
    /\ DOMAIN customize # {}

CustomizeElidedReached ==
    /\ Done
    /\ \E o \in VarargsOffsets : Elided(o)
    /\ DOMAIN customize # {}

\* the instruction offsets of the whole byte array that hold a RETURN_VALUE
\* or an END_FINALLY
Returns ==
    {i \in SeqToSet(OpRangeIn(co.co_code, 0, Len(co.co_code))) :
        Rd(co.co_code, i) \in {RETURN_VALUE, END_FINALLY}}

\* C8: setup_code returns N = 1 + the greatest instruction offset of the
\* byte array holding a RETURN_VALUE or END_FINALLY, the code is its first N
\* bytes and so ends with that instruction; when there is none, disassemble
\* fails and returns no tokens and no customize map
Truncation ==
    pc # "setup_code" =>
      IF Returns # {}
      THEN /\ \E i \in Returns : n = i + 1 /\ \A j \in Returns : j <= i
           /\ code = SubSeq(co.co_code, 1, n)
           /\ code[n] \in {RETURN_VALUE, END_FINALLY}
      ELSE /\ pc = "failed"
           /\ err = "AssertionError"
           /\ tokens = <<>>
           /\ customize = EmptyMap

\* a byte array cut after an earlier RETURN_VALUE or END_FINALLY and scanned
\* to the end
TruncationWitness ==
    /\ Done
    /\ Cardinality(Returns) >= 2
    /\ n < Len(co.co_code)

TruncationFailureReached == pc = "failed" /\ Returns = {}

\* some jump of the truncated code has its target outside [0, N)
OutOfRegionJump ==
    \E i \in Offsets :
       /\ C(i) \in hasjrel \cup hasjabs
       /\ get_target(i) \notin 0..(n - 1)

\* the body of some SETUP_LOOP has neither a JUMP_ABSOLUTE nor a
\* RETURN_VALUE
LoopWithoutJumpBack ==
    \E i \in Offsets :
       /\ C(i) = SETUP_LOOP
       /\ \A j \in Offsets :
             (i < j /\ j < get_target(i)) => C(j) \notin {JA, RETURN_VALUE}

\* C9: on truncated code with a jump target outside [0, N), or with a
\* SETUP_LOOP body that has neither a backward jump nor a RETURN_VALUE,
\* find_jump_targets and detect_structure raise no error
InconsistentJumpNeverFails ==
    [][(/\ pc \in {"find_jump_targets", "detect"}
        /\ OutOfRegionJump \/ LoopWithoutJumpBack) => pc' # "failed"]_vars

\* C9, the out-of-region target alone
OutOfRegionJumpNeverFails ==
    [][(pc \in {"find_jump_targets", "detect"} /\ OutOfRegionJump)
          => pc' # "failed"]_vars

\* C9, the loop body without a backward jump alone
LoopWithoutJumpBackNeverFails ==
    [][(pc \in {"find_jump_targets", "detect"} /\ LoopWithoutJumpBack /\ ~OutOfRegionJump)
          => pc' # "failed"]_vars

\* the entry of the line-number program that byte offset j belongs to
LineEntry(j) ==
    CHOOSE k \in DOMAIN co.linestarts :
       /\ co.linestarts[k][1] <= j
       /\ \A m \in DOMAIN co.linestarts :
             co.linestarts[m][1] <= j => co.linestarts[m][1] <= co.linestarts[k][1]

\* C10: after build_lines_data, for every byte offset j of [0, N),
\* lines[j].l_no is the line number of the entry with the greatest start
\* offset <= j and lines[j].next is the start offset of the following
\* entry, or N for the last line
LineMap ==
    pc \notin {"setup_code", "build_lines_data", "failed"} =>
      /\ Len(lines) = n
      /\ \A j \in 0..(n - 1) :
            /\ Rd(lines, j).l_no = co.linestarts[LineEntry(j)][2]
            /\ Rd(lines, j).next = IF LineEntry(j) < Len(co.linestarts)
                                   THEN co.linestarts[LineEntry(j) + 1][1]
                                   ELSE n

\* C10, the next field alone
LineMapNext ==
    pc \notin {"setup_code", "build_lines_data", "failed"} =>
      /\ Len(lines) = n
      /\ \A j \in 0..(n - 1) :
            Rd(lines, j).next = IF LineEntry(j) < Len(co.linestarts)
                                THEN co.linestarts[LineEntry(j) + 1][1]
                                ELSE n

\* C10, the line number within the first line alone
LineMapFirstLine ==
    pc \notin {"setup_code", "build_lines_data", "failed"} =>
      \A j \in 0..(n - 1) :
         LineEntry(j) = 1 => Rd(lines, j).l_no = co.linestarts[1][2]

\* build_stmt_indices has returned
StmtsBuilt == pc \in {"detect", "replace", "emit", "done"}

\* the smallest offset of stmts that is >= k, or N
StmtAtOrAfter(k) ==
    IF \E s \in stmts : s >= k
    THEN CHOOSE s \in stmts : s >= k /\ \A t \in stmts : t >= k => s <= t
    ELSE n

\* the smallest offset of stmts that is > k, or N
StmtAfter(k) == StmtAtOrAfter(k + 1)

\* C11 as stated: after build_stmt_indices next_stmt[k] is defined for
\* every k of [0, N] and is the smallest statement offset >= k, N when
\* there is none
NextStmtAtOrAfter ==
    StmtsBuilt =>
      /\ \A k \in 0..n : InIdx(next_stmt, k)
      /\ \A k \in 0..n : Rd(next_stmt, k) = StmtAtOrAfter(k)

\* C11, the defined range alone: next_stmt[N] is defined
NextStmtDefinedAtN == StmtsBuilt => InIdx(next_stmt, n)

\* C11, the value alone on the indices next_stmt has
NextStmtAtStatement ==
    StmtsBuilt => \A k \in 0..(n - 1) : Rd(next_stmt, k) = StmtAtOrAfter(k)

\* C11 amended: after build_stmt_indices next_stmt has exactly the N
\* entries 0..N-1 and next_stmt[k] is the smallest statement offset
\* strictly greater than k, N when there is none
NextStmtAfter ==
    StmtsBuilt =>
      /\ Len(next_stmt) = n
      /\ \A k \in 0..(n - 1) : Rd(next_stmt, k) = StmtAfter(k)

\* build_stmt_indices returned with a statement at offset 0, a later
\* statement s whose entry points past s, and bytes after the last statement
NextStmtAfterWitness ==
    /\ pc = "detect" /\ cursor = 0
    /\ 0 \in stmts
    /\ \E s \in stmts : s > 0 /\ Rd(next_stmt, s) \in stmts /\ Rd(next_stmt, s) > s
    /\ \E k \in 0..(n - 1) : Rd(next_stmt, k) = n /\ \A s \in stmts : s <= k

\* build_prev_op has returned
PrevBuilt ==
    pc \in {"load_asserts", "find_jump_targets", "detect", "replace", "emit", "done"}

RebuiltFromScratch ==
    pc \in {"done", "failed", "hang"} =>
      \A k \in DOMAIN earlier : earlier[k].co = co => earlier[k] = Outcome

\* a third call returned for the code object of the first call, after a
\* second call on another code object that raised part-way
RebuiltFromScratchWitness ==
    /\ pc = "done"
    /\ Len(earlier) = 2
    /\ earlier[1].co = co /\ earlier[1].pc = "done" /\ earlier[1].tokens = tokens
    /\ earlier[2].co # co /\ earlier[2].pc = "failed"
    /\ earlier[2].err = "IndexError"

\* a call returned after a call on another code object that returned
RebuiltAfterReturnReached ==
    /\ pc = "done"
    /\ Len(earlier) = 2
    /\ earlier[1].co = co
    /\ earlier[2].co # co /\ earlier[2].pc = "done" /\ Len(earlier[2].tokens) > Len(tokens)

\* a step of find_jump_targets in which detect_structure classifies the
\* SETUP_LOOP at cursor: it appends an entry to loops
LoopClassified ==
    /\ pc = "detect" /\ C(cursor) = SETUP_LOOP
    /\ pc' \notin {"failed", "hang"}
    /\ Len(loops') = Len(loops) + 1

\* the SETUP_LOOP at p takes the "loop suite ends in return" branch (line 423)
LoopEndsInReturn(p) ==
    LET end == restrict_to_parent(get_target_op(p, SETUP_LOOP), find_parent(structs, p))
    IN Falsy(loop_jump_back1(last_instr(p + 3, end, {JA}, LineNext(p), FALSE), end))

\* the struct the step pushes first
LoopStruct == structs'[Len(structs) + 1]

LoopTypes == {"for-loop", "while-loop", "while 1-loop"}

\* C14 as stated: in both branches the struct pushed for a classified
\* SETUP_LOOP is {flavor-loop, target, jump_back} and that jump_back is in
\* not_continue afterwards
LoopJumpBackMarked ==
    [][LoopClassified =>
         /\ LoopStruct.type \in LoopTypes
         /\ LoopStruct.start = Last(loops')
         /\ LoopStruct.end \in not_continue']_vars

\* C14 amended: the struct pushed for a classified SETUP_LOOP is
\* {flavor-loop, target, jump_back}; in the backward-jump branch that
\* jump_back is in not_continue afterwards, in the "loop suite ends in
\* return" branch not_continue is left as it was; a JUMP_ABSOLUTE whose
\* offset is in not_continue is never emitted as CONTINUE
LoopJumpBack ==
    /\ [](Done => \A q \in DOMAIN tokens :
                    tokens[q].kind = "CONTINUE" => tokens[q].offset \notin not_continue)
    /\ [][LoopClassified =>
            /\ LoopStruct.type \in LoopTypes
            /\ LoopStruct.start = Last(loops')
            /\ ~LoopEndsInReturn(cursor) => LoopStruct.end \in not_continue'
            /\ LoopEndsInReturn(cursor) => not_continue' = not_continue]_vars

\* disassemble returned for a loop closed by a backward jump: the end of
\* its struct is in not_continue and is emitted as JUMP_BACK, while another
\* backward jump of the loop is emitted as CONTINUE
LoopJumpBackWitness ==
    /\ Done
    /\ \E k \in DOMAIN structs, q, r \in DOMAIN tokens :
          /\ structs[k].type \in LoopTypes
          /\ structs[k].end \in not_continue
          /\ tokens[q].offset = structs[k].end /\ tokens[q].kind = "JUMP_BACK"
          /\ tokens[r].kind = "CONTINUE"

\* `while x: return 1` has its loop classified by the "ends in return"
\* branch and nothing in not_continue
LoopEndsInReturnReached ==
    /\ Done
    /\ co = CodeObject(WhileReturn, WhileReturnLines)
    /\ structs = <<root_struct, Struct("while-loop", 9, 13)>>
    /\ loops = <<9>>
    /\ not_continue = {}

\* a step of find_jump_targets in which detect_structure classifies a
\* POP_JUMP_IF_TRUE whose pos+3 is an assert candidate, and returns
AssertClassified ==
    /\ pc = "detect" /\ C(cursor) = PJIT
    /\ (cursor + 3) \in load_asserts
    /\ pc' \notin {"failed", "hang"}

\* the test of line 588 for the POP_JUMP_IF_TRUE at p
AssertTest(p) ==
    C(P(restrict_to_parent(get_target_op(p, PJIT), find_parent(structs, p))))
        = RAISE_VARARGS

\* offset o holds LOAD_GLOBAL AssertionError right after a POP_JUMP_IF_TRUE
AssertCandidate(o) ==
    /\ C(o) = LOAD_GLOBAL /\ C(o - 3) = PJIT
    /\ Rd(co.co_names, get_argument(o)) = "AssertionError"

\* the LOAD_GLOBAL tokens named LOAD_ASSERT are those at the offsets of
\* load_asserts
AssertTokens ==
    Done => \A q \in DOMAIN tokens :
               tokens[q].kind \in {"LOAD_GLOBAL", "LOAD_ASSERT"}
               => (tokens[q].kind = "LOAD_ASSERT" <=> tokens[q].offset \in load_asserts)

\* C15: every offset left in load_asserts is a LOAD_GLOBAL AssertionError
\* after a POP_JUMP_IF_TRUE, the tokens named LOAD_ASSERT are those at the
\* offsets of load_asserts, and the classification of a candidate's
\* POP_JUMP_IF_TRUE leaves pos+3 in load_asserts exactly when
\* code[prev[rtarget]] is RAISE_VARARGS
AssertConfirmed ==
    /\ [](Returned => \A o \in load_asserts : AssertCandidate(o))
    /\ [](AssertTokens)
    /\ [][AssertClassified =>
            ((cursor + 3) \in load_asserts' <=> AssertTest(cursor))]_vars

\* the part of C15 that the early returns of lines 526 and 539 leave true:
\* a candidate that leaves load_asserts failed the test of line 588, and a
\* candidate that stays either passed it or had its POP_JUMP_IF_TRUE return
\* before the test
AssertRemovedOnlyOnTest ==
    [][AssertClassified =>
         /\ (cursor + 3) \notin load_asserts' => ~AssertTest(cursor)
         /\ load_asserts' \subseteq load_asserts]_vars

\* disassemble returned with a LOAD_ASSERT token whose POP_JUMP_IF_TRUE
\* jumps to right after another conditional jump, not after RAISE_VARARGS
AssertKeptByShortCircuit ==
    /\ Done
    /\ co = CodeObject(IfOrAssertionError, IfOrAssertionErrorLines)
    /\ \E q \in DOMAIN tokens :
          /\ tokens[q].kind = "LOAD_ASSERT"
          /\ C(P(get_target_op(tokens[q].offset - 3, PJIT))) \in pop_jump_if

\* struct s contains offset p; struct s lies within struct t, strictly
\* when their bounds differ
Contains(s, p) == s.start <= p /\ p < s.end
Within(s, t) == s.start >= t.start /\ s.end <= t.end
StrictlyWithin(s, t) == Within(s, t) /\ (s.start # t.start \/ s.end # t.end)

\* the positions of the structs that contain cursor and lie within root
Candidates ==
    {k \in 2..Len(structs) : Contains(structs[k], cursor) /\ Within(structs[k], structs[1])}

\* the structs list in every order that keeps root first
Reordered ==
    {[k \in 1..Len(structs) |-> IF k = 1 THEN structs[1] ELSE structs[f[k]]] :
        f \in {g \in [2..Len(structs) -> 2..Len(structs)] :
                 \A i, j \in 2..Len(structs) : i # j => g[i] # g[j]}}

\* the parent is root or a struct that contains cursor within root, and no
\* struct that contains cursor within root lies strictly inside it
ParentMinimal ==
    /\ chosen = structs[1] \/ (Contains(chosen, cursor) /\ Within(chosen, structs[1]))
    /\ \A k \in Candidates : ~StrictlyWithin(structs[k], chosen)

\* of any two structs that contain cursor within root, one lies strictly
\* inside the other
CandidatesNested ==
    \A j, k \in Candidates :
        j # k => StrictlyWithin(structs[j], structs[k]) \/ StrictlyWithin(structs[k], structs[j])

\* C16 as stated: for any structs list and any pos the parent is root or an
\* innermost struct that contains pos within root, and every ordering of
\* the list gives the same parent
ParentOrderIndependent ==
    pc = "looked_up" =>
        /\ ParentMinimal
        /\ \A r \in Reordered : find_parent(r, cursor) = chosen

\* C16 amended: the parent is root or a struct that contains pos within
\* root with no containing struct strictly inside it; every ordering gives
\* the same parent when the structs that contain pos within root are nested
\* in one another with different bounds
ParentInnermost ==
    pc = "looked_up" =>
        /\ ParentMinimal
        /\ CandidatesNested => \A r \in Reordered : find_parent(r, cursor) = chosen

\* two nested structs contain pos, the inner one comes first in the list
\* and is the parent
ParentInnermostWitness ==
    /\ pc = "looked_up"
    /\ Len(structs) = 3 /\ Candidates = {2, 3} /\ CandidatesNested
    /\ chosen = structs[2]
    /\ StrictlyWithin(structs[2], structs[3])

\* two structs that overlap without nesting both contain pos: the parent is
\* the one that comes first in the list
ParentOrderDecides ==
    /\ pc = "looked_up"
    /\ structs = <<structs[1], Struct("if-then", 0, 2), Struct("if-then", 1, 3)>>
    /\ cursor = 1
    /\ chosen = structs[2]
    /\ find_parent(<<structs[1], structs[3], structs[2]>>, cursor) = structs[3]

\* C17: disassemble finishes on every byte array that passes truncation:
\* no walk of build_stmt_indices and no except-block walk goes on for ever
DisassembleFinishes == pc # "hang"

\* build_stmt_indices never returns: the statement at offset 0 is a
\* designator or a JUMP_ABSOLUTE and the backward walk stays at prev[0] = 0
StmtWalkNeverEnds ==
    /\ pc = "hang" /\ cursor = 0 /\ targets = EmptyMap
    /\ C(0) \in designator_ops \cup {JA}
    /\ WalkBack(0, designator_ops \cup {JA}) = HANG

\* the except-block walk of a SETUP_EXCEPT never returns: i comes back to a
\* value it had
ExceptWalkNeverEnds ==
    /\ pc = "hang" /\ C(cursor) = SETUP_EXCEPT

=============================================================================
